---- MODULE Spec2Model ----
(***************************************************************************)
(* Model of the automated 3NF data-modeling pipeline:                      *)
(*   AutoProfiler -> ForeignKeyDetector -> Normalizer -> SchemaValidator.  *)
(* Tables are pandas DataFrames: an ordered column list and a sequence of  *)
(* rows; every cell is a string, the empty string standing for NaN/None.   *)
(* Column and table names are strings, matched by substring as the code    *)
(* matches them.                                                           *)
(***************************************************************************)
EXTENDS Integers, Sequences, FiniteSets, TLC

VARIABLES
    metadata,           \* table name -> [dataframe, multivalued]   (MetadataExtractor.metadata)
    table_names,        \* insertion order of the metadata dict
    profiles,           \* table name -> profile record              (state['profiles'])
    foreign_keys,       \* list of FK edges, shared by detector, normalizer, validator
    all_normalized,     \* the dict normalize_all_tables accumulates
    normalized_tables,  \* ordered dict of decomposed tables         (state['normalized_tables'])
    todo,               \* tables normalize_all_tables has still to process
    last_final,         \* what the last normalize_table call returned
    validator,          \* the current SchemaValidator instance: its errors and warnings
    reports,            \* what each validate_all call returned, as it returned it
    ran,                \* the workflow nodes that have run, in the order they ran
    errors,             \* state['errors'] of the workflow
    sql_script_path,    \* state['sql_script_path'], "" until a script was written
    entity_call,        \* a direct _detect_semantic_entity call: its arguments and result
    circular_call,      \* a direct SQLGenerator._would_create_circular_fk call and its result
    pc                  \* state['status'] of the workflow

vars == <<metadata, table_names, profiles, foreign_keys, all_normalized, normalized_tables,
          todo, last_final, validator, reports, ran, errors, sql_script_path, entity_call,
          circular_call, pc>>

-----------------------------------------------------------------------------
(* Bounds of the model *)

\* rows of the table a direct _detect_semantic_entity call is given
NumEntityRows == 15

\* rows of every generated input table
NumRows == 3
\* rows of the Scenario A orders table
NumOrders == 12
\* how often a caller invokes validate_all on one SchemaValidator
MaxValidateCalls == 2

-----------------------------------------------------------------------------
(* Generic sequence helpers *)

Range(s) == {s[i] : i \in DOMAIN s}

InSeq(x, s) == \E i \in DOMAIN s : s[i] = x

RECURSIVE SeqFilterOut(_, _)
\* [c for c in s if c not in drop]
SeqFilterOut(s, drop) ==
    IF s = <<>> THEN <<>>
    ELSE IF Head(s) \in drop THEN SeqFilterOut(Tail(s), drop)
         ELSE <<Head(s)>> \o SeqFilterOut(Tail(s), drop)

RECURSIVE SeqFilterIn(_, _)
\* [c for c in s if c in keep]
SeqFilterIn(s, keep) ==
    IF s = <<>> THEN <<>>
    ELSE IF Head(s) \in keep THEN <<Head(s)>> \o SeqFilterIn(Tail(s), keep)
         ELSE SeqFilterIn(Tail(s), keep)

RECURSIVE Dedup(_)
\* keeps the first occurrence of every element (drop_duplicates / unique)
Dedup(s) ==
    IF s = <<>> THEN <<>>
    ELSE <<Head(s)>> \o Dedup(SeqFilterOut(Tail(s), {Head(s)}))

TakeFirst(s, n) == IF Len(s) <= n THEN s ELSE SubSeq(s, 1, n)

RECURSIVE Perms(_)
\* all orderings of a finite set, as sequences
Perms(S) ==
    IF S = {} THEN {<<>>}
    ELSE UNION {{<<x>> \o p : p \in Perms(S \ {x})} : x \in S}

-----------------------------------------------------------------------------
(* Python str operations on names *)

UpperToLower ==
    [c \in {"A","B","C","D","E","F","G","H","I","J","K","L","M",
            "N","O","P","Q","R","S","T","U","V","W","X","Y","Z"} |->
       CASE c = "A" -> "a" [] c = "B" -> "b" [] c = "C" -> "c" [] c = "D" -> "d"
         [] c = "E" -> "e" [] c = "F" -> "f" [] c = "G" -> "g" [] c = "H" -> "h"
         [] c = "I" -> "i" [] c = "J" -> "j" [] c = "K" -> "k" [] c = "L" -> "l"
         [] c = "M" -> "m" [] c = "N" -> "n" [] c = "O" -> "o" [] c = "P" -> "p"
         [] c = "Q" -> "q" [] c = "R" -> "r" [] c = "S" -> "s" [] c = "T" -> "t"
         [] c = "U" -> "u" [] c = "V" -> "v" [] c = "W" -> "w" [] c = "X" -> "x"
         [] c = "Y" -> "y" [] c = "Z" -> "z"]

RECURSIVE Lower(_)
\* str.lower()
Lower(s) ==
    IF Len(s) = 0 THEN ""
    ELSE (IF SubSeq(s, 1, 1) \in DOMAIN UpperToLower
          THEN UpperToLower[SubSeq(s, 1, 1)] ELSE SubSeq(s, 1, 1))
         \o Lower(SubSeq(s, 2, Len(s)))

\* p in s
Contains(s, p) ==
    \E i \in 1..(Len(s) + 1 - Len(p)) : SubSeq(s, i, i + Len(p) - 1) = p

\* s.startswith(p)
StartsWith(s, p) == Len(p) <= Len(s) /\ SubSeq(s, 1, Len(p)) = p

\* s.endswith(p)
EndsWith(s, p) == Len(p) <= Len(s) /\ SubSeq(s, Len(s) - Len(p) + 1, Len(s)) = p

RECURSIVE Remove(_, _)
\* s.replace(old, ''): left to right, non-overlapping
Remove(s, old) ==
    IF Len(s) < Len(old) THEN s
    ELSE IF StartsWith(s, old) THEN Remove(SubSeq(s, Len(old) + 1, Len(s)), old)
         ELSE SubSeq(s, 1, 1) \o Remove(SubSeq(s, 2, Len(s)), old)

RECURSIVE RemoveAll(_, _)
\* s.replace(o1, '').replace(o2, '')...
RemoveAll(s, olds) ==
    IF olds = <<>> THEN s ELSE RemoveAll(Remove(s, Head(olds)), Tail(olds))

\* any(p in s for p in patterns)
ContainsAny(s, patterns) == \E p \in patterns : Contains(s, p)

RECURSIVE Join(_, _)
\* sep.join(parts)
Join(parts, sep) ==
    IF parts = <<>> THEN ""
    ELSE IF Len(parts) = 1 THEN parts[1]
         ELSE parts[1] \o sep \o Join(Tail(parts), sep)

RECURSIVE SplitFrom(_, _, _)
SplitFrom(s, sep, cur) ==
    IF Len(s) = 0 THEN <<cur>>
    ELSE IF StartsWith(s, sep)
         THEN <<cur>> \o SplitFrom(SubSeq(s, Len(sep) + 1, Len(s)), sep, "")
         ELSE SplitFrom(SubSeq(s, 2, Len(s)), sep, cur \o SubSeq(s, 1, 1))

\* s.split(sep)
Split(s, sep) == SplitFrom(s, sep, "")

-----------------------------------------------------------------------------
(* pandas DataFrame operations *)

\* NaN / None
Null == ""

Digits == {"0","1","2","3","4","5","6","7","8","9"}

IsDigits(v) == Len(v) > 0 /\ \A i \in 1..Len(v) : SubSeq(v, i, i) \in Digits

NRows(df) == Len(df.rows)

ColSet(df) == Range(df.cols)

\* df[col] as a sequence
Column(df, c) == [i \in 1..NRows(df) |-> df.rows[i][c]]

\* set(df[col].dropna().unique())
NonNull(df, c) == {df.rows[i][c] : i \in 1..NRows(df)} \ {Null}

\* df[col].isna().any()
HasNull(df, c) == \E i \in 1..NRows(df) : df.rows[i][c] = Null

\* df[col].nunique()
NUnique(df, c) == Cardinality(NonNull(df, c))

\* pandas reads an integer column that has a missing value as float64
IsFloatColumn(df, c) == HasNull(df, c) /\ \A v \in NonNull(df, c) : IsDigits(v)

\* set(str(v) for v in df[col].dropna().unique())
StrValues(df, c) ==
    {IF IsFloatColumn(df, c) THEN v \o ".0" ELSE v : v \in NonNull(df, c)}

\* the projection of row i on the columns cs (a tuple)
Proj(df, i, cs) == [k \in 1..Len(cs) |-> df.rows[i][cs[k]]]

\* df.duplicated(subset=cs, keep=False).any()   (NaN equals NaN)
HasDuplicates(df, cs) ==
    \E i, j \in 1..NRows(df) : i # j /\ Proj(df, i, cs) = Proj(df, j, cs)

\* df[col].duplicated().any()
ColumnHasDuplicates(df, c) == HasDuplicates(df, <<c>>)

\* the group keys of df.groupby(cs, dropna=...)
GroupKeys(df, cs, dropna) ==
    {Proj(df, i, cs) : i \in {j \in 1..NRows(df) :
                               ~dropna \/ \A k \in 1..Len(cs) : df.rows[j][cs[k]] # Null}}

\* df.groupby(cs)[dep].nunique() for the group g
GroupNUnique(df, cs, g, dep) ==
    Cardinality({df.rows[i][dep] : i \in {j \in 1..NRows(df) : Proj(df, j, cs) = g}} \ {Null})

\* (df.groupby(cs, dropna=...)[dep].nunique() == 1).all()
AllGroupsOne(df, cs, dep, dropna) ==
    \A g \in GroupKeys(df, cs, dropna) : GroupNUnique(df, cs, g, dep) = 1

\* df.drop(columns=drop)
DropColumns(df, drop) ==
    LET keep == SeqFilterOut(df.cols, drop)
    IN  [cols |-> keep,
         rows |-> [i \in 1..NRows(df) |-> [c \in Range(keep) |-> df.rows[i][c]]]]

RECURSIVE DedupRows(_, _)
DedupRows(rows, seen) ==
    IF rows = <<>> THEN <<>>
    ELSE IF Head(rows) \in seen THEN DedupRows(Tail(rows), seen)
         ELSE <<Head(rows)>> \o DedupRows(Tail(rows), seen \cup {Head(rows)})

\* df[cs].drop_duplicates().reset_index(drop=True)
ProjectDistinct(df, cs) ==
    [cols |-> cs,
     rows |-> DedupRows([i \in 1..NRows(df) |-> [c \in Range(cs) |-> df.rows[i][c]]], {})]

-----------------------------------------------------------------------------
(* Ordered dicts of lists: a sequence of [key, val] entries in insertion order *)

DictKeys(d) == [i \in 1..Len(d) |-> d[i].key]

DictHas(d, k) == \E i \in 1..Len(d) : d[i].key = k

DictGet(d, k) == d[CHOOSE i \in 1..Len(d) : d[i].key = k].val

\* d[k] = v  (keeps the position of an existing key)
DictPut(d, k, v) ==
    IF DictHas(d, k)
    THEN [i \in 1..Len(d) |-> IF d[i].key = k THEN [key |-> k, val |-> v] ELSE d[i]]
    ELSE Append(d, [key |-> k, val |-> v])

\* d[k].append(x) on a defaultdict(list)
DictAppend(d, k, x) ==
    IF DictHas(d, k) THEN DictPut(d, k, Append(DictGet(d, k), x))
    ELSE Append(d, [key |-> k, val |-> <<x>>])

RECURSIVE DictUpdate(_, _)
\* d.update(e)
DictUpdate(d, e) ==
    IF e = <<>> THEN d
    ELSE DictUpdate(DictPut(d, Head(e).key, Head(e).val), Tail(e))

RECURSIVE Combinations(_, _)
\* list(itertools.combinations(s, k)), in itertools' order
Combinations(s, k) ==
    IF k = 0 THEN << <<>> >>
    ELSE IF Len(s) < k THEN <<>>
    ELSE LET with == Combinations(Tail(s), k - 1)
         IN  [i \in 1..Len(with) |-> <<Head(s)>> \o with[i]] \o Combinations(Tail(s), k)

Min(a, b) == IF a <= b THEN a ELSE b

-----------------------------------------------------------------------------
(* AutoProfiler *)

\* _is_functional_dependency's threshold, in percent
FDThresholdPercent == 99
\* find_candidate_keys' max_key_size
MaxKeySize == 3
\* find_candidate_keys stops a size once it holds this many composite keys
MaxCompositeKeys == 3
\* find_functional_dependencies' max_determinant_size
MaxDeterminantSize == 3
\* _represents_genuine_entity: fewer distinct values than this is categorical
MinEntityUnique == 10
\* _represents_genuine_entity: a uniqueness ratio below this percentage is categorical
MinEntityRatioPercent == 5

ProfilerBlacklist ==
    {"email", "phone", "price", "amount", "cost", "total", "quantity",
     "date", "timestamp", "name", "description", "address", "status",
     "city", "state", "zip", "country", "supplier", "category"}

ProfilerIdentityPatterns ==
    {"_id", "_key", "_code", "_ref", "_number", "sys_id", "uuid", "guid"}

\* AutoProfiler._is_functional_dependency(df, determinants, dependent)
IsFunctionalDependency(df, determinants, dependent) ==
    IF NRows(df) < 2 THEN FALSE
    ELSE LET keys == GroupKeys(df, determinants, FALSE)
             ones == {g \in keys : GroupNUnique(df, determinants, g, dependent) = 1}
         IN  \/ ones = keys
             \/ 100 * Cardinality(ones) >= FDThresholdPercent * Cardinality(keys)

\* AutoProfiler._is_direct_dependency(df, determinants, dependent)
IsDirectDependency(df, determinants, dependent) ==
    IF NRows(df) < 2 THEN TRUE
    ELSE AllGroupsOne(df, determinants, dependent, FALSE)

RECURSIVE FDSingles(_, _, _, _)
\* the single-column loop of find_functional_dependencies
FDSingles(df, i, j, deps) ==
    IF i > Len(df.cols) THEN deps
    ELSE IF j > Len(df.cols) THEN FDSingles(df, i + 1, 1, deps)
    ELSE IF i # j /\ IsFunctionalDependency(df, <<df.cols[i]>>, df.cols[j])
         THEN FDSingles(df, i, j + 1, DictAppend(deps, df.cols[i], df.cols[j]))
         ELSE FDSingles(df, i, j + 1, deps)

RECURSIVE AppendAll(_, _, _)
AppendAll(deps, k, xs) ==
    IF xs = <<>> THEN deps ELSE AppendAll(DictAppend(deps, k, Head(xs)), k, Tail(xs))

RECURSIVE FDCombos(_, _, _)
\* one size of the composite loop of find_functional_dependencies
FDCombos(df, combos, deps) ==
    IF combos = <<>> THEN deps
    ELSE LET det == Head(combos)
         IN  IF ~HasDuplicates(df, det)
             THEN FDCombos(df, Tail(combos),
                           AppendAll(deps, Join(det, "+"), SeqFilterOut(df.cols, Range(det))))
             ELSE FDCombos(df, Tail(combos), deps)

RECURSIVE FDSizes(_, _, _, _)
FDSizes(df, size, stop, deps) ==
    IF size >= stop THEN deps
    ELSE FDSizes(df, size + 1, stop, FDCombos(df, Combinations(df.cols, size), deps))

\* AutoProfiler.find_functional_dependencies(df, table_name)
find_functional_dependencies(df) ==
    LET singles == FDSingles(df, 1, 1, <<>>)
    IN  IF NRows(df) > 1 /\ Len(df.cols) > 2
        THEN FDSizes(df, 2, Min(MaxDeterminantSize + 1, Len(df.cols)), singles)
        ELSE singles

\* the single-column test of find_candidate_keys
IsSingleCandidateKey(df, col) ==
    LET col_lower == Lower(col)
        has_identity ==
            \/ ContainsAny(col_lower, ProfilerIdentityPatterns)
            \/ StartsWith(col_lower, "id")   \/ EndsWith(col_lower, "id")
            \/ StartsWith(col_lower, "key")  \/ EndsWith(col_lower, "key")
            \/ StartsWith(col_lower, "code") \/ EndsWith(col_lower, "code")
    IN  /\ ~ContainsAny(col_lower, ProfilerBlacklist)
        /\ has_identity
        /\ NUnique(df, col) = NRows(df)
        /\ ~HasNull(df, col)

\* the composite test of find_candidate_keys
IsCompositeCandidateKey(df, cols) ==
    /\ \E i \in 1..Len(cols) : ContainsAny(Lower(cols[i]), ProfilerIdentityPatterns)
    /\ ~HasDuplicates(df, cols)

RECURSIVE CompositeKeysOfSize(_, _, _)
\* one size of the composite loop: stops once MaxCompositeKeys keys are held
CompositeKeysOfSize(df, combos, found) ==
    IF combos = <<>> \/ Len(found) >= MaxCompositeKeys THEN found
    ELSE IF IsCompositeCandidateKey(df, Head(combos))
         THEN CompositeKeysOfSize(df, Tail(combos), Append(found, Head(combos)))
         ELSE CompositeKeysOfSize(df, Tail(combos), found)

RECURSIVE CompositeKeys(_, _, _)
CompositeKeys(df, size, stop) ==
    IF size >= stop THEN <<>>
    ELSE LET found == CompositeKeysOfSize(df, Combinations(df.cols, size), <<>>)
         IN  IF found # <<>> THEN found ELSE CompositeKeys(df, size + 1, stop)

\* AutoProfiler.find_candidate_keys(df, table_name)
find_candidate_keys(df) ==
    IF NRows(df) = 0 THEN <<>>
    ELSE LET singles ==
                 LET ok == {c \in ColSet(df) : IsSingleCandidateKey(df, c)}
                 IN  [i \in 1..Len(SeqFilterIn(df.cols, ok)) |-> <<SeqFilterIn(df.cols, ok)[i]>>]
         IN  IF singles = <<>> /\ Len(df.cols) > 1
             THEN CompositeKeys(df, 2, Min(MaxKeySize + 1, Len(df.cols) + 1))
             ELSE singles

RECURSIVE PartialOfSubsets(_, _, _, _)
\* the subset loop of detect_partial_dependencies
PartialOfSubsets(df, subsets, columns, deps) ==
    IF subsets = <<>> THEN deps
    ELSE LET subset == Head(subsets)
             hit == SeqFilterIn(columns,
                        {c \in Range(columns) : IsFunctionalDependency(df, subset, c)})
         IN  PartialOfSubsets(df, Tail(subsets), columns,
                              AppendAll(deps, Join(subset, "+"), hit))

RECURSIVE PartialOfSizes(_, _, _, _, _)
PartialOfSizes(df, composite_key, size, columns, deps) ==
    IF size >= Len(composite_key) THEN deps
    ELSE PartialOfSizes(df, composite_key, size + 1, columns,
             PartialOfSubsets(df, Combinations(composite_key, size), columns, deps))

\* AutoProfiler.detect_partial_dependencies(df, table_name, composite_key)
detect_partial_dependencies(df, composite_key) ==
    IF Len(composite_key) < 2 THEN <<>>
    ELSE PartialOfSizes(df, composite_key, 1,
                        SeqFilterOut(df.cols, Range(composite_key)), <<>>)

\* AutoProfiler._represents_genuine_entity(df, col, dependent_cols)
RepresentsGenuineEntity(df, col, dependent_cols) ==
    LET unique_count == NUnique(df, col)
        total_count == NRows(df)
        col_lower == Lower(col)
        has_entity_indicator ==
            ContainsAny(col_lower, {"supplier", "vendor", "manufacturer", "customer",
                "employee", "product", "order", "invoice", "contract", "location", "company"})
        is_simple_categorical ==
            ContainsAny(col_lower, {"state", "status", "type", "category", "level", "grade",
                "class", "rank", "priority", "severity"})
        has_contact ==
            \E i \in 1..Len(dependent_cols) :
                ContainsAny(Lower(dependent_cols[i]),
                    {"email", "phone", "address", "contact", "website", "city", "zip"})
    IN  IF /\ Len(dependent_cols) = 1
           /\ ContainsAny(Lower(dependent_cols[1]), {"name", "description", "label", "title", "desc"})
           /\ Contains(Lower(dependent_cols[1]), RemoveAll(col, <<"_id", "_code">>))
        THEN FALSE
        ELSE IF \/ unique_count < MinEntityUnique
                \/ (total_count > 0 /\ 100 * unique_count < MinEntityRatioPercent * total_count)
                \/ total_count = 0
        THEN FALSE
        ELSE IF is_simple_categorical /\ ~has_entity_indicator THEN FALSE
        ELSE IF has_entity_indicator /\ Len(dependent_cols) >= 2 THEN TRUE
        ELSE IF has_contact THEN TRUE
        ELSE Len(dependent_cols) >= 3

\* whether detect_transitive_dependencies accepts target_col for intermediate_col
IsTransitiveTarget(df, primary_key, intermediate_col, target_col) ==
    /\ intermediate_col # target_col
    /\ IsFunctionalDependency(df, <<intermediate_col>>, target_col)
    /\ ~IsDirectDependency(df, primary_key, target_col)

RECURSIVE TransitiveOf(_, _, _, _, _)
\* the intermediate_col loop of detect_transitive_dependencies
TransitiveOf(df, primary_key, columns, inters, found) ==
    IF inters = <<>> THEN found
    ELSE LET inter == Head(inters)
             firsts == {c \in Range(columns) :
                          /\ IsTransitiveTarget(df, primary_key, inter, c)
                          /\ RepresentsGenuineEntity(df, inter, <<c>>)}
             first == SeqFilterIn(columns, firsts)[1]
             others == {c \in Range(columns) :
                          c # first /\ IsTransitiveTarget(df, primary_key, inter, c)}
         IN  IF firsts = {}
             THEN TransitiveOf(df, primary_key, columns, Tail(inters), found)
             ELSE TransitiveOf(df, primary_key, columns, Tail(inters),
                      Append(found, [pk_key |-> Join(primary_key, "+"),
                                     intermediate |-> inter,
                                     targets |-> <<first>> \o SeqFilterIn(columns, others)]))

\* AutoProfiler.detect_transitive_dependencies(df, table_name, primary_key)
detect_transitive_dependencies(df, primary_key) ==
    LET columns == SeqFilterOut(df.cols, Range(primary_key))
        pk_dependent_cols ==
            SeqFilterIn(columns,
                {c \in Range(columns) : IsFunctionalDependency(df, primary_key, c)})
    IN  TransitiveOf(df, primary_key, columns, pk_dependent_cols, <<>>)

\* min(candidate_keys, key=len): the first key of the least length
FirstShortest(keys) ==
    keys[CHOOSE i \in 1..Len(keys) :
            /\ \A j \in 1..Len(keys) : Len(keys[i]) <= Len(keys[j])
            /\ \A j \in 1..(i - 1) : Len(keys[j]) > Len(keys[i])]

\* no primary key: Python's None
None == <<>>

\* one iteration of AutoProfiler.profile_all_tables
profile_table(df) ==
    LET candidate_keys == find_candidate_keys(df)
        primary_key == IF candidate_keys # <<>> THEN FirstShortest(candidate_keys) ELSE None
    IN  [candidate_keys |-> candidate_keys,
         primary_key |-> primary_key,
         functional_dependencies |-> find_functional_dependencies(df),
         partial_dependencies |->
             IF candidate_keys # <<>> /\ Len(primary_key) > 1
             THEN detect_partial_dependencies(df, primary_key) ELSE <<>>,
         transitive_dependencies |->
             IF candidate_keys # <<>>
             THEN detect_transitive_dependencies(df, primary_key) ELSE <<>>]

\* AutoProfiler.profile_all_tables()
profile_all_tables(meta) ==
    [t \in DOMAIN meta |-> profile_table(meta[t].dataframe)]

-----------------------------------------------------------------------------
(* ForeignKeyDetector *)

\* profiles[table].get('primary_key'), None when the table has no profile
PrimaryKeyOf(profs, table) ==
    IF table \in DOMAIN profs THEN profs[table].primary_key ELSE None

\* graph[node]: the tables node points to
Neighbours(graph, node) == {e[2] : e \in {d \in graph : d[1] = node}}

RECURSIVE HasCycleDfs(_, _, _, _)
RECURSIVE VisitNeighbours(_, _, _, _)
\* the nested has_cycle_dfs / has_cycle: [found, visited] after visiting node
HasCycleDfs(graph, node, visited, rec_stack) ==
    VisitNeighbours(graph, Neighbours(graph, node), visited \cup {node}, rec_stack \cup {node})

\* the neighbour loop of has_cycle_dfs
VisitNeighbours(graph, nbrs, visited, rec_stack) ==
    IF nbrs = {} THEN [found |-> FALSE, visited |-> visited]
    ELSE LET n == CHOOSE x \in nbrs : TRUE
         IN  IF n \notin visited
             THEN LET r == HasCycleDfs(graph, n, visited, rec_stack)
                  IN  IF r.found THEN r
                      ELSE VisitNeighbours(graph, nbrs \ {n}, r.visited, rec_stack)
             ELSE IF n \in rec_stack THEN [found |-> TRUE, visited |-> visited]
             ELSE VisitNeighbours(graph, nbrs \ {n}, visited, rec_stack)

\* ForeignKeyDetector._would_create_circular_dependency(table1, table2)
WouldCreateCircularDependency(detected_relationships, table1, table2) ==
    HasCycleDfs(detected_relationships \cup {<<table1, table2>>}, table1, {}, {}).found

\* the (.+) group of re.match('<prefix>(.+)', s), "" when there is no match
GroupAfterPrefix(s, prefix) ==
    IF StartsWith(s, prefix) /\ Len(s) > Len(prefix)
    THEN SubSeq(s, Len(prefix) + 1, Len(s)) ELSE ""

\* the (.+) group of re.match('(.+)<suffix>', s): greedy, so up to the last <suffix>
GroupBeforeSuffix(s, suffix) ==
    LET ends == {i \in 1..Len(s) : /\ i + Len(suffix) <= Len(s)
                                     /\ SubSeq(s, i + 1, i + Len(suffix)) = suffix}
    IN  IF ends = {} THEN ""
        ELSE SubSeq(s, 1, CHOOSE i \in ends : \A j \in ends : j <= i)

\* ForeignKeyDetector.detect_hierarchical_pattern(table_name, col_name)
detect_hierarchical_pattern(table_name, col_name) ==
    LET col_lower == Lower(col_name)
        table_lower == Lower(table_name)
        groups == {GroupAfterPrefix(col_lower, "parent_"),
                   GroupBeforeSuffix(col_lower, "_parent"),
                   GroupAfterPrefix(col_lower, "manager_"),
                   GroupAfterPrefix(col_lower, "supervisor_"),
                   GroupAfterPrefix(col_lower, "chief_"),
                   GroupAfterPrefix(col_lower, "head_")}
    IN  \E g \in groups : g # "" /\ Contains(table_lower, g)

\* RULE 8 of is_valid_foreign_key
HasIdPattern(fk_col) ==
    LET col_lower == Lower(fk_col)
    IN  \/ Contains(col_lower, "_id")  \/ EndsWith(col_lower, "id")
        \/ Contains(col_lower, "_key") \/ Contains(col_lower, "_code")
        \/ Contains(col_lower, "_ref")

\* RULE 7 of is_valid_foreign_key: pk_col must be the primary key of the parent
IsParentKeyColumn(pk_col, parent_pk) == InSeq(pk_col, parent_pk)

\* ForeignKeyDetector.is_valid_foreign_key(child_table, fk_col, parent_table, pk_col)
is_valid_foreign_key(meta, profs, detected_relationships, child_table, fk_col, parent_table, pk_col) ==
    LET df_child == meta[child_table].dataframe
        df_parent == meta[parent_table].dataframe
        parent_pk == PrimaryKeyOf(profs, parent_table)
        child_pk == PrimaryKeyOf(profs, child_table)
        fk_values == StrValues(df_child, fk_col)
        pk_values == StrValues(df_parent, pk_col)
        reject(r) == [is_valid |-> FALSE, reason |-> r]
    IN  IF parent_pk = None THEN reject("no_parent_pk")
        ELSE IF ~IsParentKeyColumn(pk_col, parent_pk) THEN reject("not_parent_pk")
        ELSE IF child_pk # None /\ InSeq(fk_col, child_pk) THEN reject("fk_is_child_pk")
        ELSE IF ~HasIdPattern(fk_col) THEN reject("no_id_pattern")
        ELSE IF fk_values = {} THEN reject("no_values")
        ELSE IF fk_values \ pk_values # {} THEN reject("not_subset")
        ELSE IF NRows(df_parent) > NRows(df_child) THEN reject("cardinality")
        ELSE IF WouldCreateCircularDependency(detected_relationships, child_table, parent_table)
             THEN reject("circular")
        ELSE [is_valid |-> TRUE, reason |-> "ok"]

Edge(fk_table, fk_column, pk_table, pk_column, kind) ==
    [fk_table |-> fk_table, fk_column |-> fk_column,
     pk_table |-> pk_table, pk_column |-> pk_column, relationship_type |-> kind]

RECURSIVE ValidParents(_, _, _, _, _, _, _)
\* Phase 3 of detect_all_foreign_keys: the (parent_table, pk_col) pairs that validate,
\* parents in table order, pk columns in key order
ValidParents(meta, names, profs, rels, child_table, fk_col, todo_parents) ==
    IF todo_parents = <<>> THEN <<>>
    ELSE LET parent_table == Head(todo_parents)
             parent_pk == PrimaryKeyOf(profs, parent_table)
             ok == {pk_col \in Range(parent_pk) :
                      is_valid_foreign_key(meta, profs, rels, child_table, fk_col,
                                           parent_table, pk_col).is_valid}
             here == IF parent_table = child_table THEN <<>>
                     ELSE [i \in 1..Len(SeqFilterIn(parent_pk, ok)) |->
                             [parent_table |-> parent_table,
                              pk_col |-> SeqFilterIn(parent_pk, ok)[i]]]
         IN  here \o ValidParents(meta, names, profs, rels, child_table, fk_col,
                                  Tail(todo_parents))

\* whether the ambiguity loop of Phase 4 lets a parent compete for the column
NameMatches(fk_col_base, parent_table_name) ==
    \/ fk_col_base = parent_table_name
    \/ Contains(fk_col_base, parent_table_name)
    \/ Contains(parent_table_name, fk_col_base)

RECURSIVE BestMatch(_, _, _, _)
\* the ambiguity loop of Phase 4: [match, score], match = <<>> when there is none
BestMatch(valid_parents, fk_col_base, best_match, best_score) ==
    IF valid_parents = <<>> THEN [match |-> best_match, score |-> best_score]
    ELSE LET parent == Head(valid_parents)
             parent_table_name == Lower(parent.parent_table)
         IN  IF /\ NameMatches(fk_col_base, parent_table_name)
                /\ Len(parent_table_name) > best_score
             THEN BestMatch(Tail(valid_parents), fk_col_base, <<parent>>, Len(parent_table_name))
             ELSE BestMatch(Tail(valid_parents), fk_col_base, best_match, best_score)

\* Phase 4 of detect_all_foreign_keys for one column: the accepted parent, or <<>>
ChooseParent(valid_parents, fk_col) ==
    IF Len(valid_parents) = 1 THEN valid_parents
    ELSE IF Len(valid_parents) > 1
    THEN LET fk_col_base == RemoveAll(Lower(fk_col), <<"_id", "_key", "_code", "_ref">>)
             best == BestMatch(valid_parents, fk_col_base, <<>>, 0)
         IN  IF best.match # <<>> /\ best.score > 0 THEN best.match ELSE <<>>
    ELSE <<>>

RECURSIVE ParentChildPass(_, _, _, _, _, _)
\* Phases 1-4 of detect_all_foreign_keys; acc = [fks, rels]
ParentChildPass(meta, names, profs, ti, ci, acc) ==
    IF ti > Len(names) THEN acc
    ELSE LET child_table == names[ti]
             child_cols == meta[child_table].dataframe.cols
             child_pk == PrimaryKeyOf(profs, child_table)
         IN  IF ci > Len(child_cols)
             THEN ParentChildPass(meta, names, profs, ti + 1, 1, acc)
             ELSE LET fk_col == child_cols[ci]
                      chosen == ChooseParent(
                                    ValidParents(meta, names, profs, acc.rels,
                                                 child_table, fk_col, names), fk_col)
                  IN  IF InSeq(fk_col, child_pk) \/ chosen = <<>>
                      THEN ParentChildPass(meta, names, profs, ti, ci + 1, acc)
                      ELSE ParentChildPass(meta, names, profs, ti, ci + 1,
                             [fks |-> Append(acc.fks,
                                        Edge(child_table, fk_col, chosen[1].parent_table,
                                             chosen[1].pk_col, "parent-child")),
                              rels |-> acc.rels \cup
                                         {<<child_table, chosen[1].parent_table>>}])

\* Phase 5: whether the column is emitted as a self-referencing FK
IsSelfReference(meta, profs, rels, table_name, col, pk_col) ==
    LET df == meta[table_name].dataframe
    IN  /\ col # pk_col
        /\ detect_hierarchical_pattern(table_name, col)
        /\ ~is_valid_foreign_key(meta, profs, rels, table_name, col, table_name, pk_col).is_valid
        /\ StrValues(df, col) \subseteq StrValues(df, pk_col)

RECURSIVE SelfReferencePass(_, _, _, _, _)
\* Phase 5 of detect_all_foreign_keys
SelfReferencePass(meta, names, profs, ti, acc) ==
    IF ti > Len(names) THEN acc
    ELSE LET table_name == names[ti]
             pk == PrimaryKeyOf(profs, table_name)
             cols == meta[table_name].dataframe.cols
             hit == IF Len(pk) # 1 THEN {}
                    ELSE {c \in Range(cols) :
                            IsSelfReference(meta, profs, acc.rels, table_name, c, pk[1])}
             new == [i \in 1..Len(SeqFilterIn(cols, hit)) |->
                       Edge(table_name, SeqFilterIn(cols, hit)[i], table_name, pk[1],
                            "self-referencing")]
         IN  SelfReferencePass(meta, names, profs, ti + 1,
                               [fks |-> acc.fks \o new, rels |-> acc.rels])

\* ForeignKeyDetector.detect_all_foreign_keys(), the metadata dict iterated in the order names
detect_all_foreign_keys(meta, names, profs) ==
    SelfReferencePass(meta, names, profs, 1,
        ParentChildPass(meta, names, profs, 1, 1, [fks |-> <<>>, rels |-> {}])).fks

-----------------------------------------------------------------------------
(* MetadataExtractor: the column flags the Normalizer reads *)

\* series.dropna().head(100): the sample size of detect_multivalued and of the explode
SampleSize == 100
\* detect_multivalued: a delimiter in more than this percentage of the sample
MultivaluedPercent == 30

\* the non-null cells of a column, in row order
NonNullSeq(df, c) == SeqFilterOut(Column(df, c), {Null})

\* how many sampled cells contain the delimiter
DelimiterCount(sample, delim) ==
    Cardinality({i \in 1..Len(sample) : Contains(sample[i], delim)})

\* the array-like pattern [\[\{].*[\]\}] of detect_multivalued
LooksLikeArray(v) ==
    \E i, j \in 1..Len(v) : /\ i < j
                             /\ SubSeq(v, i, i) \in {"[", "{"}
                             /\ SubSeq(v, j, j) \in {"]", "}"}

\* MetadataExtractor.detect_multivalued(series)
detect_multivalued(df, c) ==
    LET sample == TakeFirst(NonNullSeq(df, c), SampleSize)
    IN  /\ NonNull(df, c) # {}
        /\ \/ \E d \in {",", ";", "|", "/", ":", "\n", "\t"} :
                 100 * DelimiterCount(sample, d) > MultivaluedPercent * Len(sample)
           \/ 100 * Cardinality({i \in 1..Len(sample) : LooksLikeArray(sample[i])})
                 > MultivaluedPercent * Len(sample)

\* MetadataExtractor.extract_table_metadata: the dataframe and its multivalued columns
extract_table_metadata(df) ==
    [dataframe |-> df,
     multivalued |-> SeqFilterIn(df.cols, {c \in ColSet(df) : detect_multivalued(df, c)})]

-----------------------------------------------------------------------------
(* Normalizer: 1NF, 2NF, 3NF *)

\* a stage's outcome: the tables it returns, or raised = TRUE for a Python exception
Returned(tables) == [raised |-> FALSE, tables |-> tables]
Raised == [raised |-> TRUE, tables |-> <<>>]

\* Normalizer._get_or_create_primary_key(table_name, df)
RECURSIVE FreeSurrogateName(_, _, _)
FreeSurrogateName(table_name, cols, counter) ==
    LET name == table_name \o "_id_" \o ToString(counter)
    IN  IF name \in cols THEN FreeSurrogateName(table_name, cols, counter + 1) ELSE name

SurrogateName(table_name, cols) ==
    IF (table_name \o "_id") \in cols THEN FreeSurrogateName(table_name, cols, 1)
    ELSE table_name \o "_id"

get_or_create_primary_key(profs, table_name, df) ==
    IF PrimaryKeyOf(profs, table_name) # None THEN PrimaryKeyOf(profs, table_name)
    ELSE <<SurrogateName(table_name, ColSet(df))>>

RECURSIVE Strip(_)
\* str.strip() of blanks
Strip(v) ==
    IF Len(v) = 0 THEN v
    ELSE IF SubSeq(v, 1, 1) = " " THEN Strip(SubSeq(v, 2, Len(v)))
    ELSE IF SubSeq(v, Len(v), Len(v)) = " " THEN Strip(SubSeq(v, 1, Len(v) - 1))
    ELSE v

RECURSIVE BestDelimiter(_, _, _, _)
\* the delimiter loop of _explode_multivalued_column: "" when none occurs
BestDelimiter(sample, delims, best, max_count) ==
    IF delims = <<>> THEN best
    ELSE IF DelimiterCount(sample, Head(delims)) > max_count
         THEN BestDelimiter(sample, Tail(delims), Head(delims),
                            DelimiterCount(sample, Head(delims)))
         ELSE BestDelimiter(sample, Tail(delims), best, max_count)

RECURSIVE ExplodeRowsKeepingEmpty(_, _, _, _, _)
\* the row loop of _explode_multivalued_column without its `if value:` test
ExplodeRowsKeepingEmpty(df, col, pk, delimiter, i) ==
    IF i > NRows(df) THEN <<>>
    ELSE LET col_value == df.rows[i][col]
             values == IF Contains(col_value, delimiter)
                       THEN [k \in 1..Len(Split(col_value, delimiter)) |->
                                Strip(Split(col_value, delimiter)[k])]
                       ELSE IF col_value # "" THEN <<col_value>> ELSE <<>>
             new_rows == [k \in 1..Len(values) |->
                            [c \in Range(pk) \cup {col \o "_value"} |->
                                IF c = col \o "_value" THEN values[k] ELSE df.rows[i][c]]]
         IN  new_rows \o ExplodeRowsKeepingEmpty(df, col, pk, delimiter, i + 1)

RECURSIVE ExplodeRows(_, _, _, _, _)
\* the row loop of _explode_multivalued_column
ExplodeRows(df, col, pk, delimiter, i) ==
    IF i > NRows(df) THEN <<>>
    ELSE LET col_value == df.rows[i][col]
             values == IF Contains(col_value, delimiter)
                       THEN SeqFilterOut([k \in 1..Len(Split(col_value, delimiter)) |->
                                            Strip(Split(col_value, delimiter)[k])], {""})
                       ELSE IF col_value # "" THEN <<col_value>> ELSE <<>>
             new_rows == [k \in 1..Len(values) |->
                            [c \in Range(pk) \cup {col \o "_value"} |->
                                IF c = col \o "_value" THEN values[k] ELSE df.rows[i][c]]]
         IN  new_rows \o ExplodeRows(df, col, pk, delimiter, i + 1)

\* Normalizer._explode_multivalued_column(df, col, pk): [raised, none, df]
explode_multivalued_column(df, col, pk) ==
    LET sample == TakeFirst(NonNullSeq(df, col), SampleSize)
        delimiter == BestDelimiter(sample, <<",", ";", "|", "/", ":">>, "", 0)
    IN  IF delimiter = "" THEN [raised |-> FALSE, none |-> TRUE, df |-> <<>>]
        ELSE IF ~(Range(pk) \subseteq ColSet(df))
             THEN [raised |-> TRUE, none |-> TRUE, df |-> <<>>]
        ELSE LET rows == ExplodeRows(df, col, pk, delimiter, 1)
             IN  IF rows = <<>> THEN [raised |-> FALSE, none |-> TRUE, df |-> <<>>]
                 ELSE [raised |-> FALSE, none |-> FALSE,
                       df |-> [cols |-> Dedup(pk \o <<col \o "_value">>), rows |-> rows]]

RECURSIVE Enforce1nfLoop(_, _, _, _, _)
\* the multivalued-column loop of enforce_1nf
Enforce1nfLoop(profs, table_name, df, multivalued_cols, result_tables) ==
    IF multivalued_cols = <<>> THEN Returned(result_tables)
    ELSE LET col == Head(multivalued_cols)
             pk == get_or_create_primary_key(profs, table_name, df)
             new == explode_multivalued_column(df, col, pk)
         IN  IF new.raised THEN Raised
             ELSE IF new.none
             THEN Enforce1nfLoop(profs, table_name, df, Tail(multivalued_cols), result_tables)
             ELSE Enforce1nfLoop(profs, table_name, df, Tail(multivalued_cols),
                      DictPut(DictPut(result_tables, table_name \o "_" \o col, new.df),
                              table_name,
                              DropColumns(DictGet(DictPut(result_tables,
                                              table_name \o "_" \o col, new.df), table_name),
                                          {col})))

\* Normalizer.enforce_1nf(table_name, df)
enforce_1nf(meta, profs, table_name, df) ==
    Enforce1nfLoop(profs, table_name, df, meta[table_name].multivalued,
                   <<[key |-> table_name, val |-> df]>>)

RECURSIVE Enforce2nfLoop(_, _, _, _)
\* the partial-dependency loop of enforce_2nf
Enforce2nfLoop(table_name, df, partial_deps, result_tables) ==
    IF partial_deps = <<>> THEN Returned(result_tables)
    ELSE LET key_cols == Split(Head(partial_deps).key, "+")
             dependent_cols == Head(partial_deps).val
             new_table_name == table_name \o "_" \o Join(key_cols, "_")
             new_table_cols == key_cols \o dependent_cols
             with_new == DictPut(result_tables, new_table_name,
                                 ProjectDistinct(df, new_table_cols))
         IN  IF ~(Range(new_table_cols) \subseteq ColSet(df)) THEN Raised
             ELSE IF ~(Range(dependent_cols) \subseteq ColSet(DictGet(with_new, table_name)))
             THEN Raised
             ELSE Enforce2nfLoop(table_name, df, Tail(partial_deps),
                      DictPut(with_new, table_name,
                              DropColumns(DictGet(with_new, table_name), Range(dependent_cols))))

\* Normalizer.enforce_2nf(table_name, df)
enforce_2nf(profs, table_name, df) ==
    LET result_tables == <<[key |-> table_name, val |-> df]>>
    IN  IF table_name \notin DOMAIN profs THEN Returned(result_tables)
        ELSE IF profs[table_name].partial_dependencies = <<>> THEN Returned(result_tables)
        ELSE IF Len(profs[table_name].primary_key) < 2 THEN Returned(result_tables)
        ELSE Enforce2nfLoop(table_name, df, profs[table_name].partial_dependencies,
                            result_tables)

\* _verify_functional_dependency_chain: 10% less cardinality, inter < pk * 0.9
CardinalityReductionTenths == 9

\* one target of Test 2 in _verify_functional_dependency_chain
IsValidChainTarget(df, pk_cols, intermediate_col, target_col) ==
    /\ target_col \in ColSet(df)
    /\ AllGroupsOne(df, <<intermediate_col>>, target_col, TRUE)
    /\ \/ \E g \in GroupKeys(df, <<intermediate_col>>, TRUE) :
             \E k \in 1..Len(pk_cols) : GroupNUnique(df, <<intermediate_col>>, g, pk_cols[k]) > 1
       \/ 10 * NUnique(df, intermediate_col)
             < CardinalityReductionTenths *
                 (IF Len(pk_cols) = 1 THEN NRows(df)
                  ELSE Cardinality({Proj(df, i, pk_cols) : i \in 1..NRows(df)}))

\* Normalizer._verify_functional_dependency_chain(df, pk_key, intermediate_col, target_cols)
verify_functional_dependency_chain(df, pk_key, intermediate_col, target_cols) ==
    LET pk_cols == IF Contains(pk_key, "+") THEN Split(pk_key, "+") ELSE <<pk_key>>
    IN  /\ NRows(df) >= 2
        /\ Range(pk_cols) \subseteq ColSet(df)
        /\ intermediate_col \in ColSet(df)
        /\ \A g \in GroupKeys(df, pk_cols, TRUE) : GroupNUnique(df, pk_cols, g, intermediate_col) = 1
        /\ \E k \in 1..Len(target_cols) :
              IsValidChainTarget(df, pk_cols, intermediate_col, target_cols[k])

\* the columns whose lower-cased name holds one of the indicators
ColumnsWith(df, indicators) ==
    {c \in ColSet(df) : ContainsAny(Lower(c), indicators)}

\* Normalizer._detect_multi_row_pattern(df, table_name, potential_pk_col)
detect_multi_row_pattern(df, table_name, potential_pk_col) ==
    IF potential_pk_col \notin ColSet(df) \/ ~ColumnHasDuplicates(df, potential_pk_col)
    THEN [is_multi_row |-> FALSE, pattern_type |-> "None"]
    ELSE [is_multi_row |-> TRUE,
          pattern_type |->
            IF ColumnsWith(df, {"date", "time", "timestamp", "created", "updated",
                                "modified", "occurred", "logged", "recorded"}) # {}
            THEN "event_history"
            ELSE IF \E c \in ColumnsWith(df, {"status", "state", "stage", "phase",
                                              "step", "condition"}) :
                       \E g \in GroupKeys(df, <<potential_pk_col>>, TRUE) :
                           GroupNUnique(df, <<potential_pk_col>>, g, c) > 1
            THEN "status_history"
            ELSE IF ContainsAny(Lower(table_name), {"item", "line", "detail", "entry",
                                                    "component", "part"})
            THEN "line_items"
            ELSE IF ColumnsWith(df, {"seq", "sequence", "order", "position", "index",
                                     "number", "rank"}) # {}
            THEN "sequenced_children"
            ELSE "child_records"]

Letters ==
    {"a","b","c","d","e","f","g","h","i","j","k","l","m",
     "n","o","p","q","r","s","t","u","v","w","x","y","z"}

RECURSIVE TokensFrom(_, _)
\* re.findall(r'[a-z]+', s), as a set
TokensFrom(s, cur) ==
    IF Len(s) = 0 THEN (IF cur = "" THEN {} ELSE {cur})
    ELSE IF SubSeq(s, 1, 1) \in Letters
         THEN TokensFrom(SubSeq(s, 2, Len(s)), cur \o SubSeq(s, 1, 1))
         ELSE (IF cur = "" THEN {} ELSE {cur}) \cup TokensFrom(SubSeq(s, 2, Len(s)), "")

\* _detect_semantic_entity: max(10, total_count * 0.01) and 0.02
SemanticMinUnique == 10
SemanticMinRatioPercent == 2
\* _detect_semantic_entity: the confidence threshold 0.4, in tenths
ConfidenceThresholdTenths == 4

\* the result _detect_semantic_entity starts from and returns unless the threshold is
\* met; confidence is in tenths
NotAnEntity == [is_entity |-> FALSE, confidence |-> 0, entity_type |-> "unknown"]

\* Normalizer._detect_semantic_entity(df, intermediate_col, dependent_cols)
detect_semantic_entity(df, intermediate_col, dependent_cols) ==
    LET unique_count == NUnique(df, intermediate_col)
        total_count == NRows(df)
        diverse_attrs ==
            SeqFilterIn(dependent_cols,
                {c \in Range(dependent_cols) \cap ColSet(df) :
                    AllGroupsOne(df, <<intermediate_col>>, c, TRUE)})
        attr_tokens ==
            UNION {TokensFrom(Lower(c), "") : c \in {intermediate_col} \cup Range(diverse_attrs)}
        semantic_tokens ==
            attr_tokens \ {"id", "code", "name", "desc", "description", "number", "num",
                           "value", "text", "data", "info", "type", "status"}
        has_structural ==
            \E c \in Range(diverse_attrs) :
                ContainsAny(Lower(c), {"email", "phone", "address", "street", "city", "state",
                    "zip", "postal", "country", "website", "url", "contact", "fax"})
        confidence ==
            (IF Len(diverse_attrs) = 1 THEN 1 ELSE IF Len(diverse_attrs) = 2 THEN 3 ELSE 5)
            + (IF 100 * unique_count >= 5 * total_count /\ 10 * unique_count <= 7 * total_count
               THEN 2
               ELSE IF 100 * unique_count >= 2 * total_count
                       /\ 10 * unique_count <= 9 * total_count THEN 1 ELSE 0)
            + (IF semantic_tokens # {} THEN 2 ELSE 0)
            + (IF has_structural THEN 3 ELSE 0)
    IN  IF Len(dependent_cols) = 0 THEN NotAnEntity
        ELSE IF \/ unique_count < SemanticMinUnique
                \/ 100 * unique_count < total_count
                \/ 100 * unique_count < SemanticMinRatioPercent * total_count
        THEN NotAnEntity
        ELSE IF diverse_attrs = <<>> THEN NotAnEntity
        ELSE IF confidence >= ConfidenceThresholdTenths
        THEN [is_entity |-> TRUE,
              confidence |-> confidence,
              entity_type |-> IF 2 * unique_count > total_count THEN "master_entity"
                              ELSE IF has_structural THEN "reference_entity"
                              ELSE "lookup_entity"]
        ELSE NotAnEntity

\* Normalizer._generate_entity_table_name(parent_table, key_col, entity_type)
generate_entity_table_name(parent_table, key_col, entity_type) ==
    RemoveAll(key_col, <<"_id", "_code", "_key">>)

\* Normalizer._create_related_table(result_tables, parent_table, new_table_name, df, key_col, ...)
create_related_table(result_tables, parent_table, new_table_name, df, key_col, attribute_cols) ==
    LET new_table_cols == <<key_col>> \o SeqFilterIn(attribute_cols, ColSet(df))
        with_new == DictPut(result_tables, new_table_name, ProjectDistinct(df, new_table_cols))
        cols_to_remove == Range(attribute_cols) \cap ColSet(DictGet(with_new, parent_table))
    IN  IF Len(new_table_cols) < 2 THEN result_tables
        ELSE IF cols_to_remove = {} THEN with_new
        ELSE DictPut(with_new, parent_table,
                     DropColumns(DictGet(with_new, parent_table), cols_to_remove))

RECURSIVE Enforce3nfLoop(_, _, _, _)
\* the transitive-dependency loop of enforce_3nf
Enforce3nfLoop(table_name, df, transitive_deps, result_tables) ==
    IF transitive_deps = <<>> THEN result_tables
    ELSE LET dep == Head(transitive_deps)
             multi_row_info == detect_multi_row_pattern(df, table_name, dep.intermediate)
             entity_info == detect_semantic_entity(df, dep.intermediate, dep.targets)
         IN  IF ~verify_functional_dependency_chain(df, dep.pk_key, dep.intermediate, dep.targets)
             THEN Enforce3nfLoop(table_name, df, Tail(transitive_deps), result_tables)
             ELSE IF multi_row_info.is_multi_row
             THEN Enforce3nfLoop(table_name, df, Tail(transitive_deps),
                      create_related_table(result_tables, table_name,
                          table_name \o "_" \o multi_row_info.pattern_type,
                          df, dep.intermediate, dep.targets))
             ELSE IF ~entity_info.is_entity
             THEN Enforce3nfLoop(table_name, df, Tail(transitive_deps), result_tables)
             ELSE Enforce3nfLoop(table_name, df, Tail(transitive_deps),
                      create_related_table(result_tables, table_name,
                          generate_entity_table_name(table_name, dep.intermediate,
                                                     entity_info.entity_type),
                          df, dep.intermediate, dep.targets))

\* Normalizer.enforce_3nf(table_name, df)
enforce_3nf(profs, table_name, df) ==
    LET result_tables == <<[key |-> table_name, val |-> df]>>
    IN  IF table_name \notin DOMAIN profs THEN result_tables
        ELSE Enforce3nfLoop(table_name, df, profs[table_name].transitive_dependencies,
                            result_tables)

-----------------------------------------------------------------------------
(* Normalizer: key selection, attribute migration, post-hoc inference *)

PK_BLACKLIST_PATTERNS ==
    {"email", "phone", "mobile", "fax", "contact",
     "price", "amount", "cost", "total", "subtotal", "tax", "discount",
     "quantity", "qty", "count", "balance", "payment", "salary", "wage",
     "date", "time", "timestamp", "created", "updated", "modified",
     "name", "description", "desc", "title", "label", "comment", "note",
     "status", "state", "type", "category", "class", "level", "priority",
     "address", "street", "city", "zip", "postal", "country",
     "product", "item", "sku", "barcode", "isbn",
     "supplier", "vendor", "manufacturer", "brand", "model",
     "order_date", "ship_date", "delivery_date", "due_date"}

\* Normalizer._has_identity_semantics(col_name): "high", "moderate" or "none"
has_identity_semantics(col_name) ==
    LET col_lower == Lower(col_name)
        moderate == {"id", "key", "code", "ref", "number"}
    IN  IF ContainsAny(col_lower, {"_id", "_key", "_code", "_ref", "_number", "sys_id",
                                   "uuid", "guid"})
        THEN "high"
        ELSE IF Range(Split(col_lower, "_")) \cap moderate # {} THEN "moderate"
        ELSE IF \E q \in moderate : StartsWith(col_lower, q) \/ EndsWith(col_lower, q)
        THEN "moderate"
        ELSE "none"

\* Normalizer._is_suitable_for_primary_key(col_name, df)
is_suitable_for_primary_key(col_name, df) ==
    /\ has_identity_semantics(col_name) # "none"
    /\ \/ has_identity_semantics(col_name) = "high"
       \/ ~ContainsAny(Lower(col_name), PK_BLACKLIST_PATTERNS)
    /\ NUnique(df, col_name) >= NRows(df)
    /\ ~HasNull(df, col_name)

\* Normalizer._is_foreign_key_column(table_name, pk_cols)
is_foreign_key_column(fks, table_name, pk_cols) ==
    \E i \in 1..Len(fks) : fks[i].fk_table = table_name /\ InSeq(fks[i].fk_column, pk_cols)

\* Normalizer._is_repeating_foreign_key(table_name, col, df)
is_repeating_foreign_key(fks, table_name, col, df) ==
    LET col_lower == Lower(col)
        is_fk == \/ \E i \in 1..Len(fks) :
                       fks[i].fk_table = table_name /\ fks[i].fk_column = col
                 \/ EndsWith(col_lower, "_id") /\ col_lower # Lower(table_name \o "_id")
    IN  is_fk /\ col \in ColSet(df) /\ ColumnHasDuplicates(df, col)

\* the score _determine_best_primary_key gives a suitable natural column
NaturalKeyScore(col) ==
    100 + (IF has_identity_semantics(col) = "high" THEN 20 ELSE 10)
        - (IF Len(col) > 20 THEN 5 ELSE 0)
        + (IF EndsWith(Lower(col), "_id") THEN 15
           ELSE IF EndsWith(Lower(col), "_key") \/ EndsWith(Lower(col), "_code") THEN 10
           ELSE 0)

\* Normalizer._determine_best_primary_key(df, table_name), candidate_keys left at None
determine_best_primary_key(fks, df, table_name) ==
    LET natural_candidates ==
            SeqFilterIn(df.cols,
                {c \in ColSet(df) :
                    /\ ~is_repeating_foreign_key(fks, table_name, c, df)
                    /\ ~is_foreign_key_column(fks, table_name, <<c>>)
                    /\ is_suitable_for_primary_key(c, df)})
        best == natural_candidates[CHOOSE i \in 1..Len(natural_candidates) :
                    /\ \A j \in 1..Len(natural_candidates) :
                          NaturalKeyScore(natural_candidates[j])
                              <= NaturalKeyScore(natural_candidates[i])
                    /\ \A j \in 1..(i - 1) :
                          NaturalKeyScore(natural_candidates[j])
                              < NaturalKeyScore(natural_candidates[i])]
    IN  IF natural_candidates # <<>>
        THEN [key_type |-> "natural", key_columns |-> <<best>>]
        ELSE [key_type |-> "surrogate",
              key_columns |-> <<SurrogateName(table_name, ColSet(df))>>]

\* the profile add_surrogate_keys leaves for a table: profiles[t]['primary_key'] = pk
WithPrimaryKey(profs, table_name, pk) ==
    IF table_name \in DOMAIN profs
    THEN [profs EXCEPT ![table_name].primary_key = pk]
    ELSE profs @@ (table_name :> [candidate_keys |-> <<>>, primary_key |-> pk,
                                  functional_dependencies |-> <<>>,
                                  partial_dependencies |-> <<>>,
                                  transitive_dependencies |-> <<>>])

\* df.insert(0, surrogate_key, range(1, len(df) + 1))
InsertSurrogate(df, surrogate_key) ==
    [cols |-> <<surrogate_key>> \o df.cols,
     rows |-> [i \in 1..NRows(df) |->
                 [c \in ColSet(df) \cup {surrogate_key} |->
                     IF c = surrogate_key THEN ToString(i) ELSE df.rows[i][c]]]]

RECURSIVE AddSurrogateKeysLoop(_, _, _)
\* the table loop of add_surrogate_keys; acc = [tables, profiles]
AddSurrogateKeysLoop(fks, todo_tables, acc) ==
    IF todo_tables = <<>> THEN acc
    ELSE LET table_name == Head(todo_tables).key
             df == Head(todo_tables).val
             surrogate_col == table_name \o "_id"
             has_repeating_fk ==
                 \E c \in ColSet(df) : is_repeating_foreign_key(fks, table_name, c, df)
             key_info == determine_best_primary_key(fks, df, table_name)
         IN  IF surrogate_col \in ColSet(df) /\ has_repeating_fk
             THEN AddSurrogateKeysLoop(fks, Tail(todo_tables),
                      [tables |-> DictPut(acc.tables, table_name, df),
                       profiles |-> WithPrimaryKey(acc.profiles, table_name, <<surrogate_col>>)])
             ELSE IF key_info.key_type = "natural"
             THEN AddSurrogateKeysLoop(fks, Tail(todo_tables),
                      [tables |-> DictPut(acc.tables, table_name, df),
                       profiles |-> acc.profiles])
             ELSE AddSurrogateKeysLoop(fks, Tail(todo_tables),
                      [tables |-> DictPut(acc.tables, table_name,
                                          InsertSurrogate(df, key_info.key_columns[1])),
                       profiles |-> WithPrimaryKey(acc.profiles, table_name,
                                                   key_info.key_columns)])

\* Normalizer.add_surrogate_keys(tables): [tables, profiles]
add_surrogate_keys(profs, fks, tables) ==
    AddSurrogateKeysLoop(fks, tables, [tables |-> <<>>, profiles |-> profs])

\* the columns _move_fk_dependent_attributes finds dependent on fk_col, in column order
ColsToMove(df, table_pk, fk_col) ==
    SeqFilterIn(df.cols,
        {c \in ColSet(df) :
            /\ ~InSeq(c, table_pk) /\ c # fk_col
            /\ has_identity_semantics(c) = "none"
            /\ AllGroupsOne(df, <<fk_col>>, c, TRUE)
            /\ Range(table_pk) \subseteq ColSet(df)
            /\ AllGroupsOne(df, table_pk, c, TRUE)})

RECURSIVE LeftJoinRows(_, _, _, _, _, _)
\* the rows of parent_df.merge(right, left_on=left_on, right_on=right_on, how='left')
LeftJoinRows(left_rows, right_rows, left_on, right_on, out_cols, rename) ==
    IF left_rows = <<>> THEN <<>>
    ELSE LET l == Head(left_rows)
             matches == SeqFilterIn(right_rows,
                            {r \in Range(right_rows) : r[right_on] = l[left_on]})
             joined(r) == [c \in out_cols |->
                             IF c \in DOMAIN rename THEN l[rename[c]]
                             ELSE IF c \in DOMAIN l THEN l[c]
                             ELSE IF c \in DOMAIN r THEN r[c]
                             ELSE r[right_on]]
             blank == [c \in out_cols |->
                          IF c \in DOMAIN rename THEN l[rename[c]]
                          ELSE IF c \in DOMAIN l THEN l[c] ELSE Null]
         IN  (IF matches = <<>> THEN <<blank>>
              ELSE [k \in 1..Len(matches) |-> joined(matches[k])])
             \o LeftJoinRows(Tail(left_rows), right_rows, left_on, right_on, out_cols, rename)

\* the merge of one moved column into the parent, and the drop of the duplicate FK column
MergeColumn(parent_df, df, parent_pk_col, fk_col, col) ==
    LET right == ProjectDistinct(df, <<fk_col, col>>)
        clash == fk_col # parent_pk_col /\ fk_col \in ColSet(parent_df)
        out_cols == IF clash
                    THEN [i \in 1..Len(parent_df.cols) |->
                            IF parent_df.cols[i] = fk_col THEN fk_col \o "_x"
                            ELSE parent_df.cols[i]] \o <<fk_col \o "_y", col>>
                    ELSE parent_df.cols \o <<col>>
        rename == IF clash THEN (fk_col \o "_x") :> fk_col ELSE <<>>
    IN  [cols |-> out_cols,
         rows |-> LeftJoinRows(parent_df.rows, right.rows, parent_pk_col, fk_col,
                               Range(out_cols), rename)]

RECURSIVE MergeColumns(_, _, _, _, _)
\* the cols_to_move loop that merges into the parent: [raised, df]
MergeColumns(parent_df, df, parent_pk_col, fk_col, cols_to_move) ==
    IF cols_to_move = <<>> THEN [raised |-> FALSE, df |-> parent_df]
    ELSE IF Head(cols_to_move) \in ColSet(parent_df)
    THEN MergeColumns(parent_df, df, parent_pk_col, fk_col, Tail(cols_to_move))
    ELSE IF parent_pk_col \notin ColSet(parent_df) THEN [raised |-> TRUE, df |-> parent_df]
    ELSE MergeColumns(MergeColumn(parent_df, df, parent_pk_col, fk_col, Head(cols_to_move)),
                      df, parent_pk_col, fk_col, Tail(cols_to_move))

RECURSIVE MoveForeignKeys(_, _, _, _, _)
\* the FK loop of _move_fk_dependent_attributes for one table
MoveForeignKeys(table_name, df, table_pk, table_fks, result) ==
    IF table_fks = <<>> THEN Returned(result)
    ELSE LET fk == Head(table_fks)
             cols_to_move == ColsToMove(df, table_pk, fk.fk_column)
             merged == MergeColumns(DictGet(result, fk.pk_table), df, fk.pk_column,
                                    fk.fk_column, cols_to_move)
             with_parent == DictPut(result, fk.pk_table, merged.df)
         IN  IF fk.fk_column \notin ColSet(df) \/ cols_to_move = <<>>
                \/ ~DictHas(result, fk.pk_table)
             THEN MoveForeignKeys(table_name, df, table_pk, Tail(table_fks), result)
             ELSE IF merged.raised THEN Raised
             ELSE IF ~(Range(cols_to_move) \subseteq ColSet(DictGet(with_parent, table_name)))
             THEN Raised
             ELSE MoveForeignKeys(table_name, df, table_pk, Tail(table_fks),
                      DictPut(with_parent, table_name,
                              DropColumns(DictGet(with_parent, table_name),
                                          Range(cols_to_move))))

RECURSIVE MoveTables(_, _, _, _)
\* the table loop of _move_fk_dependent_attributes
MoveTables(profs, fks, todo_tables, result) ==
    IF todo_tables = <<>> THEN Returned(result)
    ELSE LET table_name == Head(todo_tables).key
             table_fks == SeqFilterIn(fks, {f \in Range(fks) : f.fk_table = table_name})
             table_pk == PrimaryKeyOf(profs, table_name)
             moved == MoveForeignKeys(table_name, Head(todo_tables).val, table_pk,
                                      table_fks, result)
         IN  IF table_fks = <<>> \/ table_pk = None
             THEN MoveTables(profs, fks, Tail(todo_tables), result)
             ELSE IF moved.raised THEN Raised
             ELSE MoveTables(profs, fks, Tail(todo_tables), moved.tables)

\* Normalizer._move_fk_dependent_attributes(tables)
move_fk_dependent_attributes(profs, fks, tables) == MoveTables(profs, fks, tables, tables)

\* Normalizer._would_create_circular_fk(table1, table2)
would_create_circular_fk(fks, table1, table2) ==
    HasCycleDfs({<<fks[i].fk_table, fks[i].pk_table>> : i \in 1..Len(fks)}
                    \cup {<<table1, table2>>}, table1, {}, {}).found

\* table_pks of _infer_missing_foreign_keys: the single-column key of a table, or ""
SinglePk(profs, table_name) ==
    IF Len(PrimaryKeyOf(profs, table_name)) = 1 THEN PrimaryKeyOf(profs, table_name)[1] ELSE ""

\* the parent _infer_missing_foreign_keys finds for a column by name, or ""
InferredParent(profs, tables, col) ==
    LET entity_base == Remove(Lower(col), "_id")
        potential == <<entity_base, entity_base \o "s", entity_base \o "es">>
        known == SeqFilterIn(potential,
                     {n \in Range(potential) : DictHas(tables, n) /\ SinglePk(profs, n) # ""})
    IN  IF known = <<>> THEN "" ELSE known[1]

RECURSIVE InferLoopWithoutSubsetTest(_, _, _, _, _)
\* the loops of _infer_missing_foreign_keys with the subset test left out
InferLoopWithoutSubsetTest(profs, tables, ti, ci, fks) ==
    IF ti > Len(tables) THEN [raised |-> FALSE, fks |-> fks]
    ELSE LET child_table == tables[ti].key
             child_df == tables[ti].val
         IN  IF ci > Len(child_df.cols) THEN InferLoopWithoutSubsetTest(profs, tables, ti + 1, 1, fks)
             ELSE LET col == child_df.cols[ci]
                      parent_table == InferredParent(profs, tables, col)
                      parent_pk_col == SinglePk(profs, parent_table)
                      parent_df == DictGet(tables, parent_table)
                      child_values == StrValues(child_df, col)
                  IN  IF ~EndsWith(Lower(col), "_id")
                      THEN InferLoopWithoutSubsetTest(profs, tables, ti, ci + 1, fks)
                      ELSE IF child_table \in DOMAIN profs /\ profs[child_table].primary_key = None
                      THEN [raised |-> TRUE, fks |-> fks]
                      ELSE IF \/ InSeq(col, PrimaryKeyOf(profs, child_table))
                              \/ \E i \in 1..Len(fks) :
                                    fks[i].fk_table = child_table /\ fks[i].fk_column = col
                              \/ parent_table = ""
                              \/ parent_table = child_table
                              \/ would_create_circular_fk(fks, child_table, parent_table)
                      THEN InferLoopWithoutSubsetTest(profs, tables, ti, ci + 1, fks)
                      ELSE IF parent_pk_col \notin ColSet(parent_df)
                      THEN [raised |-> TRUE, fks |-> fks]
                      ELSE IF child_values # {}
                      THEN InferLoopWithoutSubsetTest(profs, tables, ti, ci + 1,
                               Append(fks, Edge(child_table, col, parent_table, parent_pk_col,
                                                "inferred_id_pattern")))
                      ELSE InferLoopWithoutSubsetTest(profs, tables, ti, ci + 1, fks)

RECURSIVE InferLoop(_, _, _, _, _)
\* the child-table and column loops of _infer_missing_foreign_keys: [raised, fks]
InferLoop(profs, tables, ti, ci, fks) ==
    IF ti > Len(tables) THEN [raised |-> FALSE, fks |-> fks]
    ELSE LET child_table == tables[ti].key
             child_df == tables[ti].val
         IN  IF ci > Len(child_df.cols) THEN InferLoop(profs, tables, ti + 1, 1, fks)
             ELSE LET col == child_df.cols[ci]
                      parent_table == InferredParent(profs, tables, col)
                      parent_pk_col == SinglePk(profs, parent_table)
                      parent_df == DictGet(tables, parent_table)
                      child_values == StrValues(child_df, col)
                  IN  IF ~EndsWith(Lower(col), "_id")
                      THEN InferLoop(profs, tables, ti, ci + 1, fks)
                      ELSE IF child_table \in DOMAIN profs /\ profs[child_table].primary_key = None
                      THEN [raised |-> TRUE, fks |-> fks]
                      ELSE IF \/ InSeq(col, PrimaryKeyOf(profs, child_table))
                              \/ \E i \in 1..Len(fks) :
                                    fks[i].fk_table = child_table /\ fks[i].fk_column = col
                              \/ parent_table = ""
                              \/ parent_table = child_table
                              \/ would_create_circular_fk(fks, child_table, parent_table)
                      THEN InferLoop(profs, tables, ti, ci + 1, fks)
                      ELSE IF parent_pk_col \notin ColSet(parent_df)
                      THEN [raised |-> TRUE, fks |-> fks]
                      ELSE IF child_values # {}
                              /\ child_values \subseteq StrValues(parent_df, parent_pk_col)
                      THEN InferLoop(profs, tables, ti, ci + 1,
                               Append(fks, Edge(child_table, col, parent_table, parent_pk_col,
                                                "inferred_id_pattern")))
                      ELSE InferLoop(profs, tables, ti, ci + 1, fks)

\* Normalizer._infer_missing_foreign_keys(tables): [raised, fks]
infer_missing_foreign_keys(profs, fks, tables) == InferLoop(profs, tables, 1, 1, fks)

\* the surrogate rule without its "not an original column" half
verify_attribute_preservation_dropping_id_columns(original_table, original_df, final_tables) ==
    LET original_cols == ColSet(original_df)
        final_cols == UNION {ColSet(final_tables[i].val) :
                               i \in {j \in 1..Len(final_tables) :
                                        StartsWith(final_tables[j].key, original_table)}}
        surrogate_keys == {c \in final_cols : EndsWith(c, "_id")}
    IN  original_cols \ (final_cols \ surrogate_keys)

\* missing_cols of _verify_attribute_preservation(original_table, original_df, final_tables)
verify_attribute_preservation(original_table, original_df, final_tables) ==
    LET original_cols == ColSet(original_df)
        final_cols == UNION {ColSet(final_tables[i].val) :
                               i \in {j \in 1..Len(final_tables) :
                                        StartsWith(final_tables[j].key, original_table)}}
        surrogate_keys == {c \in final_cols : EndsWith(c, "_id") /\ c \notin original_cols}
    IN  original_cols \ (final_cols \ surrogate_keys)

\* the line Step 5 of normalize_table appends to normalization_log
PreservationLog(original_table, original_df, final_tables) ==
    IF verify_attribute_preservation(original_table, original_df, final_tables) # {}
    THEN "WARNING: Attributes not preserved"
    ELSE "All original attributes preserved"

RECURSIVE Enforce2nfAll(_, _, _)
\* Step 2 of normalize_table: enforce_2nf on each table, results merged by dict.update
Enforce2nfAll(profs, todo_tables, normalized_2nf) ==
    IF todo_tables = <<>> THEN Returned(normalized_2nf)
    ELSE LET result == enforce_2nf(profs, Head(todo_tables).key, Head(todo_tables).val)
         IN  IF result.raised THEN Raised
             ELSE Enforce2nfAll(profs, Tail(todo_tables),
                                DictUpdate(normalized_2nf, result.tables))

RECURSIVE Enforce3nfAll(_, _, _)
\* Step 3 of normalize_table: enforce_3nf on each table, results merged by dict.update
Enforce3nfAll(profs, todo_tables, normalized_3nf) ==
    IF todo_tables = <<>> THEN normalized_3nf
    ELSE Enforce3nfAll(profs, Tail(todo_tables),
             DictUpdate(normalized_3nf,
                        enforce_3nf(profs, Head(todo_tables).key, Head(todo_tables).val)))

\* no fact/dimension migration has run
NoMigration == [ran |-> FALSE, before |-> <<>>, after |-> <<>>, profiles |-> <<>>,
                foreign_keys |-> <<>>]

\* Step 2 of normalize_table has not run
NoSecondNf == [ran |-> FALSE, raised |-> FALSE, before |-> <<>>, after |-> <<>>,
               profiles |-> <<>>]

\* what normalize_table leaves when an exception ends it: no tables, nothing logged by
\* Step 5, and self.profiles and self.foreign_keys as they are
NormalizeFailed(profs, fks, second_nf) ==
    [raised |-> TRUE, tables |-> <<>>, profiles |-> profs, foreign_keys |-> fks,
     preservation_log |-> "", second_nf |-> second_nf, migration |-> NoMigration]

\* Step 5 of normalize_table and its return: final_tables, or the exception of Step 4.5
NormalizeReturn(table_name, df, second_nf, migration, keyed, inferred) ==
    [raised |-> inferred.raised,
     tables |-> IF inferred.raised THEN <<>> ELSE keyed.tables,
     profiles |-> keyed.profiles,
     foreign_keys |-> inferred.fks,
     preservation_log |-> IF inferred.raised THEN ""
                          ELSE PreservationLog(table_name, df, keyed.tables),
     second_nf |-> second_nf,
     migration |-> migration]

\* Step 4.5 of normalize_table: _infer_missing_foreign_keys(final_tables)
NormalizeInfer(table_name, df, second_nf, migration, fks, keyed) ==
    NormalizeReturn(table_name, df, second_nf, migration, keyed,
                    infer_missing_foreign_keys(keyed.profiles, fks, keyed.tables))

\* Step 4 of normalize_table: add_surrogate_keys(fact_dimension_split)
NormalizeKeys(table_name, df, profs, fks, second_nf, normalized_3nf, fact_dimension_split) ==
    IF fact_dimension_split.raised THEN NormalizeFailed(profs, fks, second_nf)
    ELSE NormalizeInfer(table_name, df, second_nf,
                        [ran |-> TRUE, before |-> normalized_3nf,
                         after |-> fact_dimension_split.tables,
                         profiles |-> profs, foreign_keys |-> fks],
                        fks, add_surrogate_keys(profs, fks, fact_dimension_split.tables))

\* Step 3.5 of normalize_table: _move_fk_dependent_attributes(normalized_3nf)
NormalizeMove(table_name, df, profs, fks, second_nf, normalized_3nf) ==
    NormalizeKeys(table_name, df, profs, fks, second_nf, normalized_3nf,
                  move_fk_dependent_attributes(profs, fks, normalized_3nf))

\* Step 3 of normalize_table: enforce_3nf on each table
Normalize3nf(table_name, df, profs, fks, tables, normalized_2nf) ==
    IF normalized_2nf.raised
    THEN NormalizeFailed(profs, fks,
             [ran |-> TRUE, raised |-> TRUE, before |-> tables, after |-> <<>>,
              profiles |-> profs])
    ELSE NormalizeMove(table_name, df, profs, fks,
                       [ran |-> TRUE, raised |-> FALSE, before |-> tables,
                        after |-> normalized_2nf.tables, profiles |-> profs],
                       Enforce3nfAll(profs, normalized_2nf.tables, <<>>))

\* Step 2 of normalize_table on the tables enforce_1nf returned
Normalize2nf(table_name, df, profs, fks, tables) ==
    IF tables.raised THEN NormalizeFailed(profs, fks, NoSecondNf)
    ELSE Normalize3nf(table_name, df, profs, fks, tables.tables,
                      Enforce2nfAll(profs, tables.tables, <<>>))

\* Normalizer.normalize_table(table_name): the tables it returns (raised = TRUE when an
\* exception leaves it), what Step 5 logged, what Steps 2 and 3.5 were given and
\* returned, and self.profiles and self.foreign_keys as it leaves them
normalize_table(meta, profs, fks, table_name) ==
    Normalize2nf(table_name, meta[table_name].dataframe, profs, fks,
                 enforce_1nf(meta, profs, table_name, meta[table_name].dataframe))

-----------------------------------------------------------------------------
(* SchemaValidator *)

RECURSIVE PkIsFkErrors(_, _, _)
\* the "PK is also FK" loop of validate_primary_keys
PkIsFkErrors(fks, table_name, pk_cols) ==
    IF fks = <<>> THEN <<>>
    ELSE (IF Head(fks).fk_table = table_name /\ InSeq(Head(fks).fk_column, pk_cols)
          THEN << <<"PK column is also a FK", table_name, Head(fks).fk_column>> >>
          ELSE <<>>)
         \o PkIsFkErrors(Tail(fks), table_name, pk_cols)

\* the errors validate_primary_keys reports for one table with primary key pk
PrimaryKeyErrors(fks, table_name, df, pk) ==
    LET pk_cols == SeqFilterIn(pk, ColSet(df))
        null_cols == SeqFilterIn(pk_cols, {c \in Range(pk_cols) : HasNull(df, c)})
    IN  IF pk_cols = <<>> THEN << <<"PK columns not found in table", table_name, Join(pk, ",")>> >>
        ELSE (IF HasDuplicates(df, pk_cols)
              THEN << <<"PK is not unique", table_name, Join(pk_cols, ",")>> >> ELSE <<>>)
             \o [i \in 1..Len(null_cols) |->
                    <<"PK column contains NULL values", table_name, null_cols[i]>>]
             \o PkIsFkErrors(fks, table_name, pk_cols)

RECURSIVE ValidatePrimaryKeysLoop(_, _, _, _)
\* SchemaValidator.validate_primary_keys(): the errors and warnings it appends
ValidatePrimaryKeysLoop(tables, profs, fks, acc) ==
    IF tables = <<>> THEN acc
    ELSE LET table_name == Head(tables).key
             pk == PrimaryKeyOf(profs, table_name)
         IN  IF table_name \notin DOMAIN profs
             THEN ValidatePrimaryKeysLoop(Tail(tables), profs, fks, acc)
             ELSE IF pk = None
             THEN ValidatePrimaryKeysLoop(Tail(tables), profs, fks,
                      [acc EXCEPT !.warnings =
                          Append(@, <<"Table has no primary key defined", table_name, "">>)])
             ELSE ValidatePrimaryKeysLoop(Tail(tables), profs, fks,
                      [acc EXCEPT !.errors =
                          @ \o PrimaryKeyErrors(fks, table_name, Head(tables).val, pk)])

validate_primary_keys(tables, profs, fks) ==
    ValidatePrimaryKeysLoop(tables, profs, fks, [errors |-> <<>>, warnings |-> <<>>])

RECURSIVE Dependencies(_, _)
\* the dependency graph of validate_foreign_keys: fk_table -> list of pk_table
Dependencies(fks, dependencies) ==
    IF fks = <<>> THEN dependencies
    ELSE Dependencies(Tail(fks), DictAppend(dependencies, Head(fks).fk_table, Head(fks).pk_table))

RECURSIVE has_cycle(_, _, _, _)
RECURSIVE HasCycleNeighbours(_, _, _, _)
\* the nested has_cycle of validate_foreign_keys: [found, visited]
has_cycle(dependencies, node, visited, rec_stack) ==
    IF DictHas(dependencies, node)
    THEN HasCycleNeighbours(dependencies, DictGet(dependencies, node),
                            visited \cup {node}, rec_stack \cup {node})
    ELSE [found |-> FALSE, visited |-> visited \cup {node}]

HasCycleNeighbours(dependencies, neighbors, visited, rec_stack) ==
    IF neighbors = <<>> THEN [found |-> FALSE, visited |-> visited]
    ELSE IF Head(neighbors) \notin visited
    THEN LET r == has_cycle(dependencies, Head(neighbors), visited, rec_stack)
         IN  IF r.found THEN r
             ELSE HasCycleNeighbours(dependencies, Tail(neighbors), r.visited, rec_stack)
    ELSE IF Head(neighbors) \in rec_stack THEN [found |-> TRUE, visited |-> visited]
    ELSE HasCycleNeighbours(dependencies, Tail(neighbors), visited, rec_stack)

RECURSIVE CircularErrors(_, _, _)
\* the loop over dependencies.keys() that reports circular dependencies
CircularErrors(dependencies, roots, visited) ==
    IF roots = <<>> THEN <<>>
    ELSE IF Head(roots) \in visited THEN CircularErrors(dependencies, Tail(roots), visited)
    ELSE LET r == has_cycle(dependencies, Head(roots), visited, {})
         IN  (IF r.found
              THEN << <<"Circular FK dependency detected involving table", Head(roots), "">> >>
              ELSE <<>>)
             \o CircularErrors(dependencies, Tail(roots), r.visited)

\* validate_foreign_keys: coverage < 0.9, i.e. more than 10% of the values are dangling
IntegrityTolerancePercent == 10

\* the referential-integrity errors of validate_foreign_keys for one edge
IntegrityErrors(tables, fk) ==
    LET fk_df == DictGet(tables, fk.fk_table)
        pk_df == DictGet(tables, fk.pk_table)
        name == fk.fk_table \o "." \o fk.fk_column \o " -> " \o fk.pk_table \o "." \o fk.pk_column
        fk_values == StrValues(fk_df, fk.fk_column)
        invalid_refs == fk_values \ StrValues(pk_df, fk.pk_column)
    IN  IF ~DictHas(tables, fk.fk_table) \/ ~DictHas(tables, fk.pk_table) THEN <<>>
        ELSE IF fk.fk_column \notin ColSet(fk_df) \/ fk.pk_column \notin ColSet(pk_df)
        THEN << <<"FK columns not found", name, "">> >>
        ELSE IF 100 * Cardinality(invalid_refs) > IntegrityTolerancePercent * Cardinality(fk_values)
        THEN << <<"FK values don't exist in referenced table", name,
                  ToString(Cardinality(invalid_refs))>> >>
        ELSE <<>>

RECURSIVE FlattenErrors(_)
FlattenErrors(lists) ==
    IF lists = <<>> THEN <<>> ELSE Head(lists) \o FlattenErrors(Tail(lists))

\* SchemaValidator.validate_foreign_keys(): the errors it appends
validate_foreign_keys(tables, fks) ==
    LET dependencies == Dependencies(fks, <<>>)
    IN  CircularErrors(dependencies, DictKeys(dependencies), {})
        \o FlattenErrors([i \in 1..Len(fks) |-> IntegrityErrors(tables, fks[i])])

\* SchemaValidator.validate_lossless_join(): the errors it appends
validate_lossless_join(tables, fks) ==
    FlattenErrors([i \in 1..Len(fks) |->
        IF /\ DictHas(tables, fks[i].fk_table) /\ DictHas(tables, fks[i].pk_table)
           /\ fks[i].fk_column \notin ColSet(DictGet(tables, fks[i].fk_table))
        THEN << <<"Lossless join violated: FK column missing", fks[i].fk_table,
                  fks[i].fk_column>> >>
        ELSE <<>>])

\* validate_3nf: df[col].dropna().head(10) and the share 0.5 of cells with a comma
AddressSampleSize == 10
AddressCommaPercent == 50

\* SchemaValidator.validate_3nf(): the warnings it appends
validate_3nf(tables) ==
    FlattenErrors([i \in 1..Len(tables) |->
        LET df == tables[i].val
            flagged == {c \in ColSet(df) :
                          /\ Contains(Lower(c), "address")
                          /\ LET sample == TakeFirst(NonNullSeq(df, c), AddressSampleSize)
                             IN  100 * DelimiterCount(sample, ",")
                                    > AddressCommaPercent * Len(sample)}
        IN  [k \in 1..Len(SeqFilterIn(df.cols, flagged)) |->
                <<"Column may contain concatenated address data", tables[i].key,
                  SeqFilterIn(df.cols, flagged)[k]>>]])

\* SchemaValidator.validate_all() on an instance whose lists are self_errors, self_warnings:
\* the report, whose errors and warnings are the instance's lists after the call
validate_all(tables, profs, fks, self_errors, self_warnings) ==
    LET pk == validate_primary_keys(tables, profs, fks)
        fk == validate_foreign_keys(tables, fks)
        lj == validate_lossless_join(tables, fks)
        checks == [primary_keys |-> pk.errors = <<>>,
                   foreign_keys |-> fk = <<>>,
                   lossless_join |-> lj = <<>>,
                   compliance_3nf |-> TRUE]
    IN  [is_valid |-> checks.primary_keys /\ checks.foreign_keys /\ checks.lossless_join,
         checks |-> checks,
         errors |-> self_errors \o pk.errors \o fk \o lj,
         warnings |-> self_warnings \o pk.warnings \o validate_3nf(tables)]

-----------------------------------------------------------------------------
(* Input folders: small CSV tables *)

\* a DataFrame from its header and its rows as tuples
MakeDf(cols, tuples) ==
    [cols |-> cols,
     rows |-> [i \in 1..Len(tuples) |->
                 [c \in Range(cols) |-> tuples[i][CHOOSE k \in 1..Len(cols) : cols[k] = c]]]]

\* the cells a generated column draws from: a missing value or a small integer
Cells == {"", "1", "2"}
Ids == {"1", "2"}

\* customers.csv and orders.csv (orders.customer_id may also dangle)
ShopInputs ==
    {("customers" :> MakeDf(<<"customer_id", "name">>, << <<"1", "ann">>, <<"2", "bob">> >>))
     @@ ("orders" :> MakeDf(<<"order_id", "customer_id">>,
                            [i \in 1..NumRows |-> <<ToString(i), v[i]>>]))
        : v \in [1..NumRows -> Cells \cup {"3"}]}

\* two tables of the same size that reference each other
MutualInputs ==
    {("a" :> MakeDf(<<"a_id", "b_id">>, [i \in 1..NumRows |-> <<ToString(i), v[i]>>]))
     @@ ("b" :> MakeDf(<<"b_id", "a_id">>, [i \in 1..NumRows |-> <<ToString(i), w[i]>>]))
        : v \in [1..NumRows -> Ids], w \in [1..NumRows -> Ids]}

\* employees.csv with a parent_employee_id column
EmployeesInputs ==
    {("employees" :> MakeDf(<<"employee_id", "parent_employee_id">>,
                            [i \in 1..NumRows |-> <<ToString(i), v[i]>>]))
        : v \in [1..NumRows -> Cells]}

\* emp.csv with an emp_parent_id column and a department per row
EmpInputs ==
    {("emp" :> MakeDf(<<"emp_id", "emp_parent_id", "dept">>,
                      [i \in 1..NumRows |->
                          <<ToString(i), v[i], IF i = NumRows THEN "y" ELSE "x">>]))
        : v \in [1..NumRows -> Cells]}

\* a parent p and a child c whose c_id repeats
ChildInputs ==
    {("p" :> MakeDf(<<"p_id">>, << <<"1">>, <<"2">> >>))
     @@ ("c" :> MakeDf(<<"c_id", "qty">>,
                       [i \in 1..NumRows |-> <<v[i], IF i = NumRows THEN "6" ELSE "5">>]))
        : v \in [1..NumRows -> Ids]}

\* an association table with a composite key and a table that references half of it
EnrolInputs ==
    {("enrol" :> MakeDf(<<"a_id", "b_id", "room">>,
                        << <<"1", "3", "r1">>, <<"1", "4", "r1">>, <<"2", "3", "r2">> >>))
     @@ ("c" :> MakeDf(<<"c_id", "a_id">>, [i \in 1..NumRows |-> <<ToString(i), v[i]>>]))
        : v \in [1..NumRows -> Ids]}

\* users.csv: a department per user and a unique email
UsersInputs ==
    {("users" :> MakeDf(<<"dept_id", "email">>,
                        [i \in 1..NumRows |-> <<v[i], "e" \o ToString(i)>>]))
        : v \in [1..NumRows -> Ids]}

\* facts.csv: three columns, the last one possibly missing
FactsInputs ==
    {("facts" :> MakeDf(<<"a_id", "b_id", "c">>,
                        [i \in 1..NumRows |->
                            <<IF i = NumRows THEN "2" ELSE "1", ToString(i), v[i]>>]))
        : v \in [1..NumRows -> {"", "5"}]}

\* tags.csv: a multi-valued column
TagsInputs ==
    {("posts" :> MakeDf(<<"post_id", "tags">>,
                        [i \in 1..NumRows |-> <<v[i], IF i = 1 THEN "x,y" ELSE "z">>]))
        : v \in [1..NumRows -> Ids]}

\* customers.csv and sales.csv: every sale repeats the region of its customer
SalesInputs ==
    {("customers" :> MakeDf(<<"customer_id">>, << <<"1">>, <<"2">> >>))
     @@ ("sales" :> MakeDf(<<"sale_id", "customer_id", "region">>,
                           [i \in 1..NumRows |-> <<ToString(i), v[i], "r" \o v[i]>>]))
        : v \in [1..NumRows -> Ids]}

\* grades.csv: one row per student and course; the term is the same for every row, or
\* differs for the second student
GradesInputs ==
    {("grades" :> MakeDf(<<"student_id", "course_id", "term">>,
                         << <<"1", "3", "t">>, <<"1", "4", "t">>, <<"2", "3", w>> >>))
        : w \in {"t", "u"}}

\* topics.csv: a multi-valued column and ids that are no row numbers
TopicsInputs ==
    {("topics" :> MakeDf(<<"topic_id", "tags">>,
                         [i \in 1..NumRows |-> <<v[i], IF i = 1 THEN "x,y" ELSE "z">>]))
        : v \in [1..NumRows -> {"1", "9"}]}

\* orders.csv of Scenario A: every customer orders once and the first two may order again
OrdersInputs ==
    {("orders" :> MakeDf(<<"order_id", "customer_id", "customer_name", "customer_email">>,
                         [i \in 1..NumOrders |->
                             LET c == IF i <= MinEntityUnique THEN ToString(i) ELSE v[i]
                             IN  <<ToString(i), c, "n" \o c, "e" \o c>>]))
        : v \in [(MinEntityUnique + 1)..NumOrders -> Ids]}

\* articles.csv: a unique article_id and a tags column whose first row holds a list
ArticlesInputs ==
    {("articles" :> MakeDf(<<"article_id", "tags">>,
                           [i \in 1..NumRows |-> <<ToString(i), v[i]>>]))
        : v \in {w \in [1..NumRows -> {"x,y", "x,x", "x,", "z", ""}] :
                    w[1] \in {"x,y", "x,x", "x,"} /\ \A i \in 2..NumRows : w[i] \in {"z", ""}}}

\* authors.csv and posts.csv: posts refer to their author and list their tags
BlogInputs ==
    {("authors" :> MakeDf(<<"author_id">>, << <<"1">>, <<"2">> >>))
     @@ ("posts" :> MakeDf(<<"author_id", "tags">>,
                           [i \in 1..NumRows |-> <<v[i], IF i = 1 THEN "x,y" ELSE "z">>]))
        : v \in [1..NumRows -> Ids]}

\* heads.csv and emp.csv: every employee reports to an employee who is also a head
HeadsInputs ==
    {("heads" :> MakeDf(<<"head_id">>, << <<"1">>, <<"2">> >>))
     @@ ("emp" :> MakeDf(<<"emp_id", "emp_parent_id">>,
                         [i \in 1..NumRows |-> <<ToString(i), v[i]>>]))
        : v \in [1..NumRows -> Ids]}

\* terms.csv and marks.csv: one mark row per student and course, each student in one term
TermsInputs ==
    {("terms" :> MakeDf(<<"term_id">>, << <<"1">>, <<"2">> >>))
     @@ ("marks" :> MakeDf(<<"student_id", "course_id", "term_id">>,
                           << <<"1", "3", "1">>, <<"1", "4", "1">>, <<"2", "3", w>> >>))
        : w \in Ids}

\* grades.csv next to a file that already has the name of the table its 2NF split derives
RosterInputs ==
    {("grades" :> MakeDf(<<"student_id", "course_id", "term">>,
                         << <<"1", "3", "t">>, <<"1", "4", "t">>, <<"2", "3", "u">> >>))
     @@ ("grades_student_id" :> MakeDf(<<"student_id", "name">>,
                                       << <<"1", n>>, <<"2", "bob">> >>))
        : n \in {"ann", "bob"}}

InputFolders ==
    ShopInputs \cup MutualInputs \cup EmployeesInputs \cup EmpInputs \cup ChildInputs
    \cup EnrolInputs \cup UsersInputs \cup FactsInputs \cup TagsInputs \cup OrdersInputs
    \cup ArticlesInputs \cup BlogInputs \cup SalesInputs \cup GradesInputs
    \cup TopicsInputs \cup HeadsInputs \cup TermsInputs
    \cup RosterInputs

\* MetadataExtractor.extract_all_metadata()
extract_all_metadata(folder) ==
    [t \in DOMAIN folder |-> extract_table_metadata(folder[t])]

-----------------------------------------------------------------------------
(* The pipeline *)

NoCall == [table |-> "", raised |-> FALSE, tables |-> <<>>, preservation_log |-> "",
           second_nf |-> NoSecondNf, migration |-> NoMigration]
NoValidator == [instance |-> 0, errors |-> <<>>, warnings |-> <<>>]
NoCircularCall == [fk_table |-> "", pk_table |-> "", returned |-> FALSE, result |-> FALSE]
NoEntityCall == [df |-> None, intermediate_col |-> "", dependent_cols |-> <<>>,
                 returned |-> FALSE, result |-> NotAnEntity]

\* after load_files_node and extract_metadata_node; Path.glob fixes no file order
Init ==
    /\ metadata \in {extract_all_metadata(f) : f \in InputFolders}
    /\ table_names \in Perms(DOMAIN metadata)
    /\ profiles = <<>>
    /\ foreign_keys = <<>>
    /\ all_normalized = <<>>
    /\ normalized_tables = <<>>
    /\ todo = <<>>
    /\ last_final = NoCall
    /\ validator = NoValidator
    /\ reports = <<>>
    /\ ran = <<"load_files", "extract_metadata">>
    /\ errors = <<>>
    /\ sql_script_path = ""
    /\ entity_call = NoEntityCall
    /\ circular_call = NoCircularCall
    /\ pc = "metadata_extracted"

\* the node the graph of _build_graph runs next: the one after the last that ran
LastRan == ran[Len(ran)]

\* an entry of state['errors'] a node's except clause appends
NodeError(message) == <<message, "", "">>

\* profile_node
Profile ==
    /\ LastRan = "extract_metadata"
    /\ profiles' = profile_all_tables(metadata)
    /\ ran' = Append(ran, "profile")
    /\ pc' = "profiled"
    /\ UNCHANGED <<circular_call, entity_call, metadata, table_names, foreign_keys, all_normalized, normalized_tables,
                   todo, last_final, validator, reports, errors, sql_script_path>>

\* detect_primary_keys_node: it prints the keys profiling chose
DetectPrimaryKeys ==
    /\ LastRan = "profile"
    /\ ran' = Append(ran, "detect_primary_keys")
    /\ pc' = "primary_keys_detected"
    /\ UNCHANGED <<circular_call, entity_call, metadata, table_names, profiles, foreign_keys, all_normalized,
                   normalized_tables, todo, last_final, validator, reports, errors,
                   sql_script_path>>

\* detect_foreign_keys_node
DetectForeignKeys ==
    /\ LastRan = "detect_primary_keys"
    /\ foreign_keys' = detect_all_foreign_keys(metadata, table_names, profiles)
    /\ todo' = table_names
    /\ ran' = Append(ran, "detect_foreign_keys")
    /\ pc' = "foreign_keys_detected"
    /\ UNCHANGED <<circular_call, entity_call, metadata, table_names, profiles, all_normalized, normalized_tables,
                   last_final, validator, reports, errors, sql_script_path>>

\* one iteration of normalize_all_tables inside normalize_3nf_node: normalize_table on the
\* next table; an exception ends the node with state['normalized_tables'] left empty
NormalizeTable ==
    /\ LastRan \in {"detect_foreign_keys", "normalize_3nf"}
    /\ pc \in {"foreign_keys_detected", "normalizing"}
    /\ todo # <<>>
    /\ ran' = IF LastRan = "normalize_3nf" THEN ran ELSE Append(ran, "normalize_3nf")
    /\ \E r \in {normalize_table(metadata, profiles, foreign_keys, Head(todo))} :
           /\ profiles' = r.profiles
           /\ foreign_keys' = r.foreign_keys
           /\ last_final' = [table |-> Head(todo), raised |-> r.raised, tables |-> r.tables,
                              preservation_log |-> r.preservation_log,
                              second_nf |-> r.second_nf,
                              migration |-> r.migration]
           /\ IF r.raised
              THEN /\ all_normalized' = all_normalized
                   /\ normalized_tables' = <<>>
                   /\ todo' = <<>>
                   /\ errors' = Append(errors, NodeError("Error normalizing tables"))
                   /\ pc' = "error"
              ELSE /\ all_normalized' = DictUpdate(all_normalized, r.tables)
                   /\ todo' = Tail(todo)
                   /\ normalized_tables' = IF Tail(todo) = <<>> THEN all_normalized' ELSE <<>>
                   /\ errors' = errors
                   /\ pc' = IF Tail(todo) = <<>> THEN "normalized" ELSE "normalizing"
    /\ UNCHANGED <<circular_call, entity_call, metadata, table_names, validator, reports, sql_script_path>>

\* SchemaValidator(state['normalized_tables'], state['profiles'], state['foreign_keys'])
NewValidator ==
    /\ LastRan = "normalize_3nf"
    /\ pc \in {"normalized", "error"}
    /\ validator.instance < MaxValidateCalls
    /\ Len(reports) < MaxValidateCalls
    /\ validator' = [instance |-> validator.instance + 1, errors |-> <<>>, warnings |-> <<>>]
    /\ UNCHANGED <<circular_call, entity_call, metadata, table_names, profiles, foreign_keys, all_normalized,
                   normalized_tables, todo, last_final, reports, ran, errors,
                   sql_script_path, pc>>

\* validate_all() of a validator that prunes the edge list when the schema is invalid
ValidateAllPruningEdges ==
    /\ validator.instance > 0
    /\ Len(reports) < MaxValidateCalls
    /\ LET r == validate_all(normalized_tables, profiles, foreign_keys,
                             validator.errors, validator.warnings)
       IN  /\ validator' = [validator EXCEPT !.errors = r.errors, !.warnings = r.warnings]
           /\ reports' = Append(reports, [instance |-> validator.instance, report |-> r])
           /\ foreign_keys' = IF r.is_valid THEN foreign_keys ELSE <<>>
    /\ UNCHANGED <<circular_call, entity_call, metadata, table_names, profiles, all_normalized,
                   normalized_tables, todo, last_final, ran, errors, sql_script_path, pc>>

\* validator.validate_all() on the current instance
ValidateAll ==
    /\ validator.instance > 0
    /\ Len(reports) < MaxValidateCalls
    /\ LET r == validate_all(normalized_tables, profiles, foreign_keys,
                             validator.errors, validator.warnings)
       IN  /\ validator' = [validator EXCEPT !.errors = r.errors, !.warnings = r.warnings]
           /\ reports' = Append(reports, [instance |-> validator.instance, report |-> r])
    /\ UNCHANGED <<circular_call, entity_call, metadata, table_names, profiles, foreign_keys, all_normalized,
                   normalized_tables, todo, last_final, ran, errors, sql_script_path, pc>>

Next ==
    \/ Profile \/ DetectPrimaryKeys \/ DetectForeignKeys \/ NormalizeTable
    \/ NewValidator \/ ValidateAll

Spec == Init /\ [][Next]_vars

-----------------------------------------------------------------------------
(* The workflow: the graph of NormalizationWorkflow, node after node *)

\* generate_sql_node without its loop over validation_results['errors']
ValidateSchemaDroppingErrors ==
    /\ LastRan = "normalize_3nf"
    /\ pc \in {"normalized", "error"}
    /\ LET r == validate_all(normalized_tables, profiles, foreign_keys, <<>>, <<>>)
       IN  /\ validator' = [instance |-> validator.instance + 1,
                            errors |-> r.errors, warnings |-> r.warnings]
           /\ reports' = Append(reports, [instance |-> validator.instance + 1, report |-> r])
           /\ errors' = errors
    /\ ran' = Append(ran, "validate_schema")
    /\ pc' = "schema_validated"
    /\ UNCHANGED <<circular_call, entity_call, metadata, table_names, profiles, foreign_keys, all_normalized,
                   normalized_tables, todo, last_final, sql_script_path>>

\* generate_sql_node (the node "validate_schema"): a new SchemaValidator, validate_all(),
\* and the errors of a failed validation appended to state['errors']
ValidateSchema ==
    /\ LastRan = "normalize_3nf"
    /\ pc \in {"normalized", "error"}
    /\ LET r == validate_all(normalized_tables, profiles, foreign_keys, <<>>, <<>>)
       IN  /\ validator' = [instance |-> validator.instance + 1,
                            errors |-> r.errors, warnings |-> r.warnings]
           /\ reports' = Append(reports, [instance |-> validator.instance + 1, report |-> r])
           /\ errors' = IF r.is_valid THEN errors ELSE errors \o r.errors
    /\ ran' = Append(ran, "validate_schema")
    /\ pc' = "schema_validated"
    /\ UNCHANGED <<circular_call, entity_call, metadata, table_names, profiles, foreign_keys, all_normalized,
                   normalized_tables, todo, last_final, sql_script_path>>

\* generate_sql_node2 (the node "generate_sql"): SQLGenerator.generate_all_sql either
\* writes the script or raises
GenerateSql ==
    /\ LastRan = "validate_schema"
    /\ \E written \in BOOLEAN :
           IF written
           THEN /\ sql_script_path' = "normalized_schema.sql"
                /\ errors' = errors
                /\ pc' = "sql_generated"
           ELSE /\ sql_script_path' = sql_script_path
                /\ errors' = Append(errors, NodeError("Error generating SQL"))
                /\ pc' = "error"
    /\ ran' = Append(ran, "generate_sql")
    /\ UNCHANGED <<circular_call, entity_call, metadata, table_names, profiles, foreign_keys, all_normalized,
                   normalized_tables, todo, last_final, validator, reports>>

\* validate_sql_node: opening the script fails when none was written
ValidateSql ==
    /\ LastRan = "generate_sql"
    /\ IF sql_script_path = ""
       THEN /\ errors' = Append(errors, NodeError("Error validating SQL"))
            /\ pc' = "error"
       ELSE /\ errors' = errors
            /\ pc' = "sql_validated"
    /\ ran' = Append(ran, "validate_sql")
    /\ UNCHANGED <<circular_call, entity_call, metadata, table_names, profiles, foreign_keys, all_normalized,
                   normalized_tables, todo, last_final, validator, reports, sql_script_path>>

\* export_outputs_node: the status is 'completed' whether or not the ERD was drawn
ExportOutputs ==
    /\ LastRan = "validate_sql"
    /\ ran' = Append(ran, "export_outputs")
    /\ pc' = "completed"
    /\ UNCHANGED <<circular_call, entity_call, metadata, table_names, profiles, foreign_keys, all_normalized,
                   normalized_tables, todo, last_final, validator, reports, errors,
                   sql_script_path>>

\* the edges of _build_graph, from the entry point to END
StageOrder ==
    <<"load_files", "extract_metadata", "profile", "detect_primary_keys",
      "detect_foreign_keys", "normalize_3nf", "validate_schema", "generate_sql",
      "validate_sql", "export_outputs">>

WorkflowNext ==
    \/ Profile \/ DetectPrimaryKeys \/ DetectForeignKeys \/ NormalizeTable
    \/ ValidateSchema \/ GenerateSql \/ ValidateSql \/ ExportOutputs

\* graph.invoke runs node after node until END: once validate_schema has returned, each
\* of the three nodes behind it is run as soon as its predecessor has returned
Workflow ==
    /\ Init /\ [][WorkflowNext]_vars
    /\ WF_vars(GenerateSql) /\ WF_vars(ValidateSql) /\ WF_vars(ExportOutputs)

-----------------------------------------------------------------------------
(* The validator on a caller's schema: an associative table keyed by its two references *)

\* enrollments_df, profiles_assoc and fks_assoc: student_id may repeat or be missing, the
\* key is the pair or one of its columns, and each reference may or may not be declared
EnrollmentSchemas ==
    {[tables |-> << [key |-> "enrollments",
                     val |-> MakeDf(<<"student_id", "course_id", "enrollment_date">>,
                                    [i \in 1..NumRows |-> <<v[i], w[i], "2024-01-01">>])] >>,
      profiles |-> ("enrollments" :> [primary_key |-> pk, candidate_keys |-> <<pk>>]),
      foreign_keys |-> SeqFilterIn(
          << Edge("enrollments", "student_id", "students", "student_id", "parent-child"),
             Edge("enrollments", "course_id", "courses", "course_id", "parent-child") >>,
          declared)]
        : v \in [1..NumRows -> Cells], w \in [1..NumRows -> Ids],
          pk \in {<<"student_id", "course_id">>, <<"student_id">>, <<"course_id">>},
          declared \in SUBSET {Edge("enrollments", "student_id", "students", "student_id",
                                    "parent-child"),
                               Edge("enrollments", "course_id", "courses", "course_id",
                                    "parent-child")}}

\* a caller holds a schema and is about to build a SchemaValidator for it
ValidatorInit ==
    /\ \E schema \in EnrollmentSchemas :
           /\ normalized_tables = schema.tables
           /\ all_normalized = schema.tables
           /\ profiles = schema.profiles
           /\ foreign_keys = schema.foreign_keys
    /\ metadata = <<>>
    /\ table_names = <<>>
    /\ todo = <<>>
    /\ last_final = NoCall
    /\ validator = NoValidator
    /\ reports = <<>>
    /\ ran = SubSeq(StageOrder, 1, 6)
    /\ errors = <<>>
    /\ sql_script_path = ""
    /\ entity_call = NoEntityCall
    /\ circular_call = NoCircularCall
    /\ pc = "normalized"

ValidatorNext == NewValidator \/ ValidateAll

ValidatorSpec == ValidatorInit /\ [][ValidatorNext]_vars

-----------------------------------------------------------------------------
(* The semantic-entity scorer called directly, as test_semantic_entity_detection does *)

\* how many distinct suppliers the generated table has: a categorical handful, the
\* minimum an entity needs, a few more, and one per row
EntityUniqueCounts == {3, SemanticMinUnique, SemanticMinUnique + 2, NumEntityRows}

\* the columns a caller may name as dependent; order_note differs in every row
EntityDependents == <<"supplier_name", "supplier_email", "supplier_phone", "name", "order_note">>

\* supplier_df of the test: every order row repeats its supplier's attributes
SupplierDf(k) ==
    MakeDf(<<"order_id", "supplier_id", "code">> \o EntityDependents,
           [i \in 1..NumEntityRows |->
               LET sup == ToString(i % k)
               IN  <<ToString(i), "S" \o sup, "S" \o sup, "Supplier " \o sup,
                     "supplier" \o sup \o "@email.com", "555-" \o sup, "N" \o sup,
                     ToString(i)>>])

\* Normalizer({}, {}, []) and the arguments of the call that is about to be made
SemanticInit ==
    /\ \E k \in EntityUniqueCounts, intermediate_col \in {"supplier_id", "code"},
          chosen \in SUBSET Range(EntityDependents) :
           entity_call = [df |-> SupplierDf(k), intermediate_col |-> intermediate_col,
                          dependent_cols |-> SeqFilterIn(EntityDependents, chosen),
                          returned |-> FALSE, result |-> NotAnEntity]
    /\ metadata = <<>>
    /\ table_names = <<>>
    /\ profiles = <<>>
    /\ foreign_keys = <<>>
    /\ all_normalized = <<>>
    /\ normalized_tables = <<>>
    /\ todo = <<>>
    /\ last_final = NoCall
    /\ validator = NoValidator
    /\ reports = <<>>
    /\ ran = <<>>
    /\ errors = <<>>
    /\ sql_script_path = ""
    /\ circular_call = NoCircularCall
    /\ pc = "entity_call"

\* normalizer._detect_semantic_entity(df, intermediate_col, dependent_cols)
DetectSemanticEntity ==
    /\ pc = "entity_call"
    /\ ~entity_call.returned
    /\ entity_call' = [entity_call EXCEPT
                         !.returned = TRUE,
                         !.result = detect_semantic_entity(entity_call.df,
                                                           entity_call.intermediate_col,
                                                           entity_call.dependent_cols)]
    /\ UNCHANGED <<circular_call, metadata, table_names, profiles, foreign_keys,
                   all_normalized, normalized_tables, todo, last_final, validator, reports,
                   ran, errors, sql_script_path, pc>>

SemanticNext == DetectSemanticEntity

SemanticSpec == SemanticInit /\ [][SemanticNext]_vars

-----------------------------------------------------------------------------
(* SQLGenerator._would_create_circular_fk called directly, as the rule tests do *)

RECURSIVE HasPath(_, _, _, _)
RECURSIVE HasPathParents(_, _, _, _)
\* has_path(start, target, visited) of _would_create_circular_fk; the visited set is
\* one object shared by the whole search
HasPath(dependencies, start, target, visited) ==
    IF start = target THEN [found |-> TRUE, visited |-> visited]
    ELSE IF start \in visited THEN [found |-> FALSE, visited |-> visited]
    ELSE HasPathParents(dependencies, {e[2] : e \in {d \in dependencies : d[1] = start}},
                        target, visited \cup {start})

\* the loop "for parent in dependencies[start]" of has_path
HasPathParents(dependencies, parents, target, visited) ==
    IF parents = {} THEN [found |-> FALSE, visited |-> visited]
    ELSE LET parent == CHOOSE x \in parents : TRUE
             r == HasPath(dependencies, parent, target, visited)
         IN  IF r.found THEN r
             ELSE HasPathParents(dependencies, parents \ {parent}, target, r.visited)

\* SQLGenerator._would_create_circular_fk(fk_table, pk_table)
sql_would_create_circular_fk(fks, fk_table, pk_table) ==
    HasPath({<<fks[i].fk_table, fks[i].pk_table>> : i \in 1..Len(fks)},
            pk_table, fk_table, {}).found

\* the tables of the rule tests
GraphTables == {"A", "B", "C", "D"}

\* an edge child.<parent>_id -> parent.<parent>_id, as fks_circular writes them
GraphEdge(child, parent) ==
    [fk_table |-> child, fk_column |-> Lower(parent) \o "_id",
     pk_table |-> parent, pk_column |-> Lower(parent) \o "_id"]

\* the edges the generator may be constructed with: A->B and B->C of the test, and
\* edges that continue the chain, close it or reference their own table
GraphEdges ==
    <<GraphEdge("A", "B"), GraphEdge("B", "C"), GraphEdge("C", "D"), GraphEdge("B", "A"),
      GraphEdge("A", "A")>>

\* SQLGenerator({}, {}, {}, fks) and the arguments of the call that is about to be made
CircularInit ==
    /\ \E chosen \in SUBSET Range(GraphEdges) :
           foreign_keys = SeqFilterIn(GraphEdges, chosen)
    /\ \E f \in GraphTables, p \in GraphTables :
           circular_call = [fk_table |-> f, pk_table |-> p, returned |-> FALSE,
                            result |-> FALSE]
    /\ metadata = <<>>
    /\ table_names = <<>>
    /\ profiles = <<>>
    /\ all_normalized = <<>>
    /\ normalized_tables = <<>>
    /\ todo = <<>>
    /\ last_final = NoCall
    /\ validator = NoValidator
    /\ reports = <<>>
    /\ ran = <<>>
    /\ errors = <<>>
    /\ sql_script_path = ""
    /\ entity_call = NoEntityCall
    /\ pc = "circular_call"

\* generator._would_create_circular_fk(fk_table, pk_table)
WouldCreateCircularFk ==
    /\ pc = "circular_call"
    /\ ~circular_call.returned
    /\ circular_call' = [circular_call EXCEPT
                           !.returned = TRUE,
                           !.result = sql_would_create_circular_fk(foreign_keys,
                                          circular_call.fk_table, circular_call.pk_table)]
    /\ UNCHANGED <<entity_call, metadata, table_names, profiles, foreign_keys,
                   all_normalized, normalized_tables, todo, last_final, validator, reports,
                   ran, errors, sql_script_path, pc>>

CircularNext == WouldCreateCircularFk

CircularSpec == CircularInit /\ [][CircularNext]_vars

-----------------------------------------------------------------------------
(* Properties *)

\* the detector has returned (and the normalizer may have appended to its list)
Detected == pc \notin {"metadata_extracted", "profiled", "primary_keys_detected"}

\* the (child table, child column, parent table, parent column) edges of a list
EdgeSet(fks) ==
    {<<fks[i].fk_table, fks[i].fk_column, fks[i].pk_table, fks[i].pk_column>> :
        i \in 1..Len(fks)}

\* the cycle check of SchemaValidator.validate_foreign_keys over a list of edges
IsCircular(fks) ==
    CircularErrors(Dependencies(fks, <<>>), DictKeys(Dependencies(fks, <<>>)), {}) # <<>>

\* C1: for every FK edge list the engine accepts (the list detect_all_foreign_keys
\* returns, self-referencing edges included, and that list after each post-hoc inference
\* pass), the validator's cycle check over the child -> parent table edges returns false.
C1_NoCircularForeignKeys ==
    Detected => ~IsCircular(foreign_keys)

\* C2: after the detector has run and after each normalize_table call, no table has a
\* recorded primary key of a single column that is also the child column of an FK edge
\* of that same table.
C2_SinglePrimaryKeyIsNoForeignKey ==
    Detected =>
        \A t \in DOMAIN profiles :
            Len(profiles[t].primary_key) = 1 =>
                ~is_foreign_key_column(foreign_keys, t, profiles[t].primary_key)

\* the descendant tables of the last normalize_table call that hold column c
Holders(c) ==
    {i \in 1..Len(last_final.tables) : c \in ColSet(last_final.tables[i].val)}

\* a synthesized surrogate column: it ends in _id and is no column of the original table
IsSurrogateColumn(c, original_df) == EndsWith(c, "_id") /\ c \notin ColSet(original_df)

\* C3: after normalize_table returns, the columns of the original table and the columns
\* of its descendant tables, surrogate _id columns removed, are the same multiset: every
\* original column appears in exactly one descendant table, none is missing, none appears
\* twice, and the descendants hold no other column.
C3_AttributeConservation ==
    (last_final.table # "" /\ ~last_final.raised) =>
        LET original_df == metadata[last_final.table].dataframe
        IN  /\ \A c \in ColSet(original_df) : Cardinality(Holders(c)) = 1
            /\ \A i \in 1..Len(last_final.tables) :
                   \A c \in ColSet(last_final.tables[i].val) :
                       c \in ColSet(original_df) \/ IsSurrogateColumn(c, original_df)

\* C4: detect_all_foreign_keys returns the same set of edges for every iteration order
\* of the same tables and profiles.
C4_DetectionIsOrderIndependent ==
    pc = "foreign_keys_detected" =>
        \A order \in Perms(DOMAIN metadata) :
            EdgeSet(detect_all_foreign_keys(metadata, order, profiles)) = EdgeSet(foreign_keys)

\* C5: two runs of validate_all on the same schema, on one SchemaValidator instance or on
\* two, yield the same is_valid, the same per-check results and the same errors and
\* warnings lists.
C5_RevalidationIsIdempotent ==
    \A i, j \in 1..Len(reports) : reports[i].report = reports[j].report

\* the blacklist and identity tests find_candidate_keys applies to a column name
IsBlacklistedName(col) == ContainsAny(Lower(col), ProfilerBlacklist)
IsIdentityName(col) ==
    \/ ContainsAny(Lower(col), ProfilerIdentityPatterns)
    \/ \E q \in {"id", "key", "code"} : StartsWith(Lower(col), q) \/ EndsWith(Lower(col), q)

\* C6: a column whose values are all distinct, whose name matches a blacklist pattern and
\* no identity pattern, is a member of no candidate key find_candidate_keys returns,
\* single-column or composite.
C6_BlacklistedColumnInNoCandidateKey ==
    \A t \in DOMAIN profiles :
        \A c \in ColSet(metadata[t].dataframe) :
            (/\ NUnique(metadata[t].dataframe, c) = NRows(metadata[t].dataframe)
             /\ IsBlacklistedName(c) /\ ~IsIdentityName(c))
            => \A k \in 1..Len(profiles[t].candidate_keys) :
                   ~InSeq(c, profiles[t].candidate_keys[k])

\* whether, grouping df by the columns D, at least 99% of the groups hold exactly one
\* distinct value of A
HoldsInGroups(df, D, A) ==
    LET groups == GroupKeys(df, D, FALSE)
    IN  100 * Cardinality({g \in groups : GroupNUnique(df, D, g, A) = 1})
            >= FDThresholdPercent * Cardinality(groups)

\* C7: for every (determinant D, dependent A) pair find_functional_dependencies returns,
\* single-column or composite, grouping the rows by D gives exactly one distinct A in at
\* least 99% of the groups.
C7_FunctionalDependenciesAreSound ==
    \A t \in DOMAIN profiles :
        \A k \in 1..Len(profiles[t].functional_dependencies) :
            \A A \in Range(profiles[t].functional_dependencies[k].val) :
                HoldsInGroups(metadata[t].dataframe,
                              Split(profiles[t].functional_dependencies[k].key, "+"), A)

\* C8: every parent-child edge detect_all_foreign_keys emits references the parent's full
\* primary key or a single-column candidate key of the parent, never one member of a
\* composite primary key.
C8_EdgeTargetsFullKey ==
    pc = "foreign_keys_detected" =>
        \A i \in 1..Len(foreign_keys) :
            foreign_keys[i].relationship_type = "parent-child" =>
                \/ profiles[foreign_keys[i].pk_table].primary_key
                       = <<foreign_keys[i].pk_column>>
                \/ InSeq(<<foreign_keys[i].pk_column>>,
                         profiles[foreign_keys[i].pk_table].candidate_keys)

\* the case of Scenario C: an identifier-named non-key column of child whose non-null
\* values (there are some) all occur in the single-column primary key of parent, parent
\* no larger than child, and no other table (nor parent back to child) qualifying
QualifiesAsChild(child, col, parent) ==
    LET child_df == metadata[child].dataframe
        parent_df == metadata[parent].dataframe
    IN  /\ child # parent
        /\ Len(profiles[parent].primary_key) = 1
        /\ ~InSeq(col, profiles[child].primary_key)
        /\ HasIdPattern(col)
        /\ NonNull(child_df, col) # {}
        /\ NonNull(child_df, col) \subseteq NonNull(parent_df, profiles[parent].primary_key[1])
        /\ NRows(parent_df) <= NRows(child_df)

OnlyParent(child, col, parent) ==
    /\ QualifiesAsChild(child, col, parent)
    /\ \A t \in DOMAIN metadata \ {child, parent} : ~QualifiesAsChild(child, col, t)
    /\ \A c \in ColSet(metadata[parent].dataframe) : ~QualifiesAsChild(parent, c, child)
    /\ \A c \in ColSet(metadata[child].dataframe) \ {col} : ~QualifiesAsChild(child, c, parent)

\* C9: in the case of Scenario C, detect_all_foreign_keys emits exactly one edge for the
\* column, child.column -> parent.primary key, and no other edge between the two tables.
C9_ExactlyOneEdge ==
    pc = "foreign_keys_detected" =>
        \A child \in DOMAIN metadata : \A parent \in DOMAIN metadata :
            \A col \in ColSet(metadata[child].dataframe) :
                OnlyParent(child, col, parent) =>
                    {e \in EdgeSet(foreign_keys) : {e[1], e[3]} = {child, parent}}
                        = {<<child, col, parent, profiles[parent].primary_key[1]>>}

\* C10: a table T with single-column primary key P and a column parent_<P> whose non-null
\* values are all values of P gets the self-referencing edge T.parent_<P> -> T.P, and the
\* edge is not flagged as a circular dependency.
C10_SelfReferenceAccepted ==
    pc = "foreign_keys_detected" =>
        \A t \in DOMAIN metadata :
            LET P == profiles[t].primary_key
                df == metadata[t].dataframe
            IN  (/\ Len(P) = 1
                 /\ ("parent_" \o P[1]) \in ColSet(df)
                 /\ NonNull(df, "parent_" \o P[1]) \subseteq NonNull(df, P[1]))
                => /\ <<t, "parent_" \o P[1], t, P[1]>> \in EdgeSet(foreign_keys)
                   /\ ~IsCircular(foreign_keys)

\* the Scenario A table was loaded: orders(order_id, customer_id, customer_name,
\* customer_email) with a unique order_id and a customer_id that repeats
ScenarioA ==
    /\ "orders" \in DOMAIN metadata
    /\ {"customer_name", "customer_email"} \subseteq ColSet(metadata["orders"].dataframe)

\* C11: for a table with a unique primary key K and a repeating non-key identifier X
\* that determines Y1..Yn (orders(order_id, customer_id, customer_name, customer_email)),
\* profiling records the transitive dependency K -> X -> {Y1..Yn}, and decomposition
\* yields a table named after X without its identifier suffix (customer), keyed by X and
\* holding Y1..Yn, while the original table keeps X and loses Y1..Yn.
C11_TransitiveDependencyIsDecomposed ==
    ScenarioA =>
        /\ pc # "metadata_extracted" =>
               \E i \in 1..Len(profiles["orders"].transitive_dependencies) :
                   LET t == profiles["orders"].transitive_dependencies[i]
                   IN  /\ t.pk_key = "order_id"
                       /\ t.intermediate = "customer_id"
                       /\ Range(t.targets) = {"customer_name", "customer_email"}
        /\ pc = "normalized" =>
               /\ DictHas(normalized_tables, "customer")
               /\ DictHas(normalized_tables, "orders")
               /\ ColSet(DictGet(normalized_tables, "customer")) =
                      {"customer_id", "customer_name", "customer_email"}
               /\ ~ColumnHasDuplicates(DictGet(normalized_tables, "customer"), "customer_id")
               /\ "customer_id" \in ColSet(DictGet(normalized_tables, "orders"))
               /\ ColSet(DictGet(normalized_tables, "orders"))
                      \cap {"customer_name", "customer_email"} = {}

\* the primary key profiling gave the input table t
ProfiledKey(t) == profile_table(metadata[t].dataframe).primary_key

\* the non-empty values of a comma-separated cell
Pieces(v) == SeqFilterOut(Split(v, ","), {""})

\* normalize_table returned for a table that has a primary key and a multivalued column
ExplodedCall ==
    /\ last_final.table # ""
    /\ ~last_final.raised
    /\ ProfiledKey(last_final.table) # None
    /\ metadata[last_final.table].multivalued # <<>>

\* the child table of multivalued column c holds one row per value of every parent row
OneRowPerValue(child, parent, pk, c) ==
    /\ NRows(child) =
           Cardinality(UNION {{<<i, j>> : j \in 1..Len(Pieces(parent.rows[i][c]))} :
                                 i \in 1..NRows(parent)})
    /\ \A i \in 1..NRows(parent) : \A x \in Range(Pieces(parent.rows[i][c])) :
           Cardinality({k \in 1..NRows(child) :
                           /\ Proj(child, k, pk) = Proj(parent, i, pk)
                           /\ child.rows[k][c \o "_value"] = x})
               = Cardinality({j \in 1..Len(Pieces(parent.rows[i][c])) :
                                 Pieces(parent.rows[i][c])[j] = x})

\* the child table of column c of the last normalize_table call
ChildOf(c) == DictGet(last_final.tables, last_final.table \o "_" \o c)

Started(node) == \E i \in 1..Len(ran) : ran[i] = node

\* C13: in every workflow run, runs in which an earlier stage recorded an error included,
\* detect_all_foreign_keys starts only after profiling has completed for every table, no
\* table's decomposition starts before foreign-key detection has completed, and the
\* schema validator runs only after every table has been decomposed; each stage runs
\* exactly once, in this fixed order.
C13_StagesRunOnceInOrder ==
    /\ Len(ran) <= Len(StageOrder)
    /\ ran = SubSeq(StageOrder, 1, Len(ran))
    /\ Started("detect_foreign_keys") => DOMAIN metadata \subseteq DOMAIN profiles
    /\ (Started("normalize_3nf") \/ last_final.table # "") => Started("detect_foreign_keys")
    /\ Started("validate_schema") =>
           \A t \in DOMAIN metadata : DictHas(all_normalized, t)

\* the validate_schema node has run and its validate_all reported is_valid = false
InvalidReport ==
    /\ Started("validate_schema")
    /\ ~reports[Len(reports)].report.is_valid

\* C14: whenever the schema validator reports is_valid = false, the workflow still runs
\* SQL generation, SQL validation and the output export, and every error reason of the
\* validator is in the workflow's errors list from then on, the final list included.
C14_InvalidSchemaStillExported ==
    /\ [](InvalidReport =>
            \A i \in 1..Len(reports[Len(reports)].report.errors) :
                \E j \in 1..Len(errors) : errors[j] = reports[Len(reports)].report.errors[i])
    /\ (InvalidReport ~> (pc = "completed" /\ ran = StageOrder))

\* a run whose validation failed has reached END with the validator's errors listed
C14_InvalidRunCompleted ==
    /\ InvalidReport
    /\ reports[Len(reports)].report.errors # <<>>
    /\ pc = "completed"
    /\ Started("export_outputs")

\* C15: validate_all and its four checks leave the schema unchanged: a step in which
\* validate_all returns its report changes neither the tables nor the profiles nor the
\* foreign-key list it was given.
C15_ValidationLeavesSchemaUnchanged ==
    [][reports' # reports =>
          UNCHANGED <<normalized_tables, all_normalized, profiles, foreign_keys>>]_vars

\* validate_all has returned a failing report on a schema with tables and edges
C15_SchemaValidated ==
    /\ reports # <<>>
    /\ ~reports[Len(reports)].report.is_valid
    /\ normalized_tables # <<>>
    /\ foreign_keys # <<>>

\* an endpoint of edge fk is absent from the schema: a table or a column of it
BrokenEdge(tables, fk) ==
    \/ ~DictHas(tables, fk.fk_table)
    \/ ~DictHas(tables, fk.pk_table)
    \/ fk.fk_column \notin ColSet(DictGet(tables, fk.fk_table))
    \/ fk.pk_column \notin ColSet(DictGet(tables, fk.pk_table))

\* report holds an error reason that names edge fk
EdgeErrorReported(report, fk) ==
    \E i \in 1..Len(report.errors) :
        \/ /\ report.errors[i][1] = "FK columns not found"
           /\ report.errors[i][2] = fk.fk_table \o "." \o fk.fk_column \o " -> "
                                        \o fk.pk_table \o "." \o fk.pk_column
        \/ /\ report.errors[i][1] = "Lossless join violated: FK column missing"
           /\ report.errors[i][2] = fk.fk_table
           /\ report.errors[i][3] = fk.fk_column

\* C16: for every foreign-key edge, if the child column is absent from the child table or
\* the parent column is absent from the parent table, the case that the endpoint table
\* itself is absent included, validate_all returns is_valid = false with an error reason
\* for that edge.
C16_BrokenEdgeIsReported ==
    \A k \in 1..Len(reports) : \A i \in 1..Len(foreign_keys) :
        BrokenEdge(normalized_tables, foreign_keys[i]) =>
            /\ ~reports[k].report.is_valid
            /\ EdgeErrorReported(reports[k].report, foreign_keys[i])

\* the primary-key check of report failed table t
PkCheckFailed(report, t) ==
    \E i \in 1..Len(report.errors) :
        /\ report.errors[i][2] = t
        /\ report.errors[i][1] \in {"PK columns not found in table", "PK is not unique",
                                    "PK column contains NULL values", "PK column is also a FK"}

\* primary key pk of table t is duplicated, holds a null, or is a foreign-key column
PkIsUnsound(fks, t, df, pk) ==
    \/ HasDuplicates(df, pk)
    \/ \E i \in 1..Len(pk) : HasNull(df, pk[i])
    \/ Len(pk) = 1 /\ \E i \in 1..Len(fks) : fks[i].fk_table = t /\ fks[i].fk_column = pk[1]

\* C17: the primary-key check fails a table exactly when its primary key has a duplicated
\* combination, contains a null, or is equal to a foreign-key column (a single-column
\* primary key that is also a foreign key); a unique, non-null composite primary key that
\* merely contains foreign-key columns passes.
C17_PrimaryKeyCheckIsExact ==
    \A k \in 1..Len(reports) : \A i \in 1..Len(normalized_tables) :
        LET t == normalized_tables[i].key
            df == normalized_tables[i].val
            pk == PrimaryKeyOf(profiles, t)
        IN  (pk # None /\ Range(pk) \subseteq ColSet(df)) =>
                (PkCheckFailed(reports[k].report, t) <=> PkIsUnsound(foreign_keys, t, df, pk))

\* the surrogate column names _get_or_create_primary_key and add_surrogate_keys may give
\* table t: <t>_id, or <t>_id_<n> when that name is taken
SurrogateNames(t) == {t \o "_id"} \cup {t \o "_id_" \o ToString(n) : n \in 1..NumRows}

\* C18: for any table with no candidate key, one with multivalued columns to explode
\* included, normalize_table completes without raising, and the resulting table carries a
\* surrogate primary-key column <table>_id (or <table>_id_<n>) whose values are exactly
\* 1..N.
C18_KeylessTableGetsSurrogate ==
    (last_final.table # "" /\ ProfiledKey(last_final.table) = None) =>
        /\ ~last_final.raised
        /\ DictHas(last_final.tables, last_final.table)
        /\ LET df == DictGet(last_final.tables, last_final.table)
               pk == PrimaryKeyOf(profiles, last_final.table)
           IN  /\ Len(pk) = 1
               /\ pk[1] \in SurrogateNames(last_final.table) \cap ColSet(df)
               /\ \A i \in 1..NRows(df) : df.rows[i][pk[1]] = ToString(i)

\* C19: after normalize_table returns, the preservation check has logged the warning
\* "Attributes not preserved" exactly when some column of the original table is in none
\* of the descendant tables, and "All original attributes preserved" otherwise; the
\* check itself never turns a call that got this far into a raised one.
C19_PreservationLogIsExact ==
    (last_final.table # "" /\ ~last_final.raised) =>
        LET original_df == metadata[last_final.table].dataframe
        IN  IF \E c \in ColSet(original_df) : Holders(c) = {}
            THEN last_final.preservation_log = "WARNING: Attributes not preserved"
            ELSE last_final.preservation_log = "All original attributes preserved"

\* C19 witness: a normalize_table call dropped a column and the warning was logged
C19_WarningLogged ==
    /\ last_final.table # ""
    /\ ~last_final.raised
    /\ \E c \in ColSet(metadata[last_final.table].dataframe) : Holders(c) = {}
    /\ last_final.preservation_log = "WARNING: Attributes not preserved"

\* C20: whatever column and dependent attributes the semantic-entity scorer is given, the
\* confidence it reports lies between 0 and 1 (0..10 tenths), is_entity is true exactly
\* when that confidence is at least 0.4, and a result that is no entity reports a
\* confidence below 0.4.
C20_ConfidenceIsBoundedAndThresholded ==
    entity_call.returned =>
        /\ entity_call.result.confidence \in 0..10
        /\ entity_call.result.is_entity
               <=> entity_call.result.confidence >= ConfidenceThresholdTenths
        /\ ~entity_call.result.is_entity
               => entity_call.result.confidence < ConfidenceThresholdTenths

\* the tables reachable from table t along one or more child -> parent edges of fks
RECURSIVE DependsOnWithin(_, _, _)
DependsOnWithin(fks, reached, n) ==
    IF n = 0 THEN reached
    ELSE DependsOnWithin(fks,
             reached \cup {fks[i].pk_table : i \in {j \in 1..Len(fks) : fks[j].fk_table \in reached}},
             n - 1)

\* table t depends on table u, directly or transitively, through the edges of fks
DependsOn(fks, t, u) ==
    u \in DependsOnWithin(fks,
              {fks[i].pk_table : i \in {j \in 1..Len(fks) : fks[j].fk_table = t}}, Len(fks))

\* C21: SQLGenerator._would_create_circular_fk(f, p) returns true exactly when p and f
\* are different tables and p already depends on f, directly or transitively, through
\* the existing edges; it returns false when there is no such path and false for a
\* self-referencing edge (f = p).
C21_CircularExactlyWhenParentDependsOnChild ==
    circular_call.returned =>
        (circular_call.result
            <=> /\ circular_call.fk_table # circular_call.pk_table
                /\ DependsOn(foreign_keys, circular_call.pk_table, circular_call.fk_table))

\* the attributes of table t, as the migration stage was given it, that edge e of t
\* determines: columns outside the primary key pk and other than the FK column whose
\* value is fixed by the value of the FK column
FkDetermined(df, pk, e) ==
    IF e.fk_column \notin ColSet(df) THEN {}
    ELSE {c \in ColSet(df) \ (Range(pk) \cup {e.fk_column}) :
             AllGroupsOne(df, <<e.fk_column>>, c, TRUE)}

\* the edges of table t the migration stage looked at
MigrationEdges(t) ==
    {e \in Range(last_final.migration.foreign_keys) : e.fk_table = t}

\* column c of the child rows df is in the parent table with the value the FK value of
\* each child row determined
HeldByParent(df, e, c) ==
    /\ DictHas(last_final.migration.after, e.pk_table)
    /\ LET parent == DictGet(last_final.migration.after, e.pk_table)
       IN  /\ {c, e.pk_column} \subseteq ColSet(parent)
           /\ \A i \in 1..NRows(df) :
                  df.rows[i][e.fk_column] # Null =>
                      \E j \in 1..NRows(parent) :
                          /\ parent.rows[j][e.pk_column] = df.rows[i][e.fk_column]
                          /\ parent.rows[j][c] = df.rows[i][c]

\* C22: after the fact/dimension migration stage of a normalize_table call, every non-key
\* attribute that one of the table's FK columns determines is a column of the parent
\* table that FK references and no longer a column of the child; and a column the stage
\* removed from a table is then in the parent of one of its FK edges, with the value the
\* FK value determined.
C22_FkDeterminedAttributesLiveInParent ==
    last_final.migration.ran =>
        \A k \in 1..Len(last_final.migration.before) :
            LET t == last_final.migration.before[k].key
                df == last_final.migration.before[k].val
                pk == PrimaryKeyOf(last_final.migration.profiles, t)
                after == DictGet(last_final.migration.after, t)
            IN  /\ pk # None =>
                       \A e \in MigrationEdges(t) :
                           e.pk_table # t =>
                               \A c \in FkDetermined(df, pk, e) :
                                   /\ c \notin ColSet(after)
                                   /\ DictHas(last_final.migration.after, e.pk_table)
                                   /\ c \in ColSet(DictGet(last_final.migration.after,
                                                            e.pk_table))
                /\ \A c \in ColSet(df) \ ColSet(after) :
                       \E e \in MigrationEdges(t) :
                           /\ e.pk_table # t
                           /\ e.fk_column \in ColSet(df)
                           /\ HeldByParent(df, e, c)

\* the tables Step 2 of the last normalize_table call was given that have a composite
\* primary key, as indices into second_nf.before
CompositeKeyed ==
    {k \in 1..Len(last_final.second_nf.before) :
        LET t == last_final.second_nf.before[k].key
        IN  /\ t \in DOMAIN last_final.second_nf.profiles
            /\ Len(last_final.second_nf.profiles[t].primary_key) >= 2}

\* the partial dependency dep (S -> dependents) of table t is resolved in the tables
\* Step 2 returned: the dependents left t and are in a table of S and the dependents in
\* which no value of S occurs twice
PartialDependencyResolved(t, dep) ==
    LET S == Split(dep.key, "+")
        after == last_final.second_nf.after
        holders == {j \in 1..Len(after) :
                       /\ after[j].key # t
                       /\ ColSet(after[j].val) = Range(S) \cup Range(dep.val)}
    IN  /\ DictHas(after, t)
        /\ Range(dep.val) \cap ColSet(DictGet(after, t)) = {}
        /\ Cardinality(holders) = 1
        /\ \A j \in holders : ~HasDuplicates(after[j].val, S)

\* C23: Step 2 of normalize_table completes on a table with a composite primary key
\* whatever partial dependencies the profiler recorded for it, and resolves each of
\* them; a table whose primary key is absent or a single column comes back unchanged.
C23_SecondNormalFormSplitsEveryPartialDependency ==
    last_final.second_nf.ran =>
        /\ CompositeKeyed # {} => ~last_final.second_nf.raised
        /\ ~last_final.second_nf.raised =>
               \A k \in 1..Len(last_final.second_nf.before) :
                   LET t == last_final.second_nf.before[k].key
                   IN  IF k \in CompositeKeyed
                       THEN \A d \in Range(last_final.second_nf.profiles[t].partial_dependencies) :
                                PartialDependencyResolved(t, d)
                       ELSE /\ DictHas(last_final.second_nf.after, t)
                            /\ DictGet(last_final.second_nf.after, t)
                                   = last_final.second_nf.before[k].val

\* the edges of a list that join two different tables
CrossTableEdges(fks) ==
    SeqFilterIn(fks, {e \in Range(fks) : e.fk_table # e.pk_table})

\* the table-level graph of a list of edges has a cycle through two or more tables
HasTableCycle(fks) ==
    \E i \in 1..Len(fks) :
        DependsOn(CrossTableEdges(fks), fks[i].fk_table, fks[i].fk_table)

\* edge number n of the list fks is justified by the tables and keys it was inferred
\* from, given the edges before it in the list
InferredEdgeIsJustified(fks, n, tables, profs) ==
    LET e == fks[n]
        earlier == SubSeq(fks, 1, n - 1)
    IN  /\ \A i \in 1..(n - 1) :
               ~(fks[i].fk_table = e.fk_table /\ fks[i].fk_column = e.fk_column)
        /\ e.fk_table # e.pk_table
        /\ DictHas(tables, e.fk_table) /\ DictHas(tables, e.pk_table)
        /\ e.fk_column \in ColSet(DictGet(tables, e.fk_table))
        /\ ~InSeq(e.fk_column, PrimaryKeyOf(profs, e.fk_table))
        /\ PrimaryKeyOf(profs, e.pk_table) = <<e.pk_column>>
        /\ e.pk_column \in ColSet(DictGet(tables, e.pk_table))
        /\ NonNull(DictGet(tables, e.fk_table), e.fk_column) # {}
        /\ NonNull(DictGet(tables, e.fk_table), e.fk_column)
               \subseteq NonNull(DictGet(tables, e.pk_table), e.pk_column)
        /\ ~HasTableCycle(Append(earlier, e))

\* C24: every edge a normalize_table call appends by post-hoc inference is justified at
\* the moment it is appended: its child column had no edge and is outside the child's
\* primary key, child and parent differ, the parent column is the parent's
\* single-column primary key, the child column has a non-null value and all its non-null
\* values are parent key values, and the table graph with the new edge has no cycle.
C24_InferredEdgesAreJustified ==
    [][(last_final' # last_final /\ ~last_final'.raised) =>
          /\ Len(foreign_keys') >= Len(foreign_keys)
          /\ SubSeq(foreign_keys', 1, Len(foreign_keys)) = foreign_keys
          /\ \A n \in (Len(foreign_keys) + 1)..Len(foreign_keys') :
                 InferredEdgeIsJustified(foreign_keys', n, last_final'.tables, profiles')]_vars

\* C24 witness: the last normalize_table call returned and the edge list ends with an
\* edge that post-hoc inference appended between two of the tables it returned
C24_EdgeInferred ==
    /\ last_final.table # ""
    /\ ~last_final.raised
    /\ foreign_keys # <<>>
    /\ foreign_keys[Len(foreign_keys)].relationship_type = "inferred_id_pattern"
    /\ DictHas(last_final.tables, foreign_keys[Len(foreign_keys)].fk_table)

\* C25: once the detector has run, every self-referencing edge T.c -> T.P it emitted
\* has a column c that matches a hierarchical naming pattern of T, is not P and carries
\* identifier-like naming, P is the single-column primary key of T, c has at least one
\* non-null value, and every non-null value of c is a value of P.
C25_SelfReferenceRelaxesOnlyRowCount ==
    pc = "foreign_keys_detected" =>
        \A i \in 1..Len(foreign_keys) :
            foreign_keys[i].fk_table = foreign_keys[i].pk_table =>
                LET T == foreign_keys[i].fk_table
                    c == foreign_keys[i].fk_column
                    P == foreign_keys[i].pk_column
                    df == metadata[T].dataframe
                IN  /\ detect_hierarchical_pattern(T, c)
                    /\ PrimaryKeyOf(profiles, T) = <<P>>
                    /\ c # P
                    /\ HasIdPattern(c)
                    /\ NonNull(df, c) # {}
                    /\ NonNull(df, c) \subseteq NonNull(df, P)

\* some stage of the run raised: its except clause recorded an "Error ..." entry in
\* state['errors'] and set the status 'error'
StageRaised ==
    \E i \in 1..Len(errors) :
        errors[i] = NodeError(errors[i][1]) /\ StartsWith(errors[i][1], "Error ")

\* C26: the final state of a run has the status 'completed', which the command line
\* reports as success with exit code 0, only if no stage of the run raised and set the
\* status 'error'.
C26_CompletedOnlyWithoutStageError ==
    pc = "completed" => ~StageRaised

\* pk is recorded, its columns are columns of df, and its value combination is unique
\* and non-null over the rows of df
KeyIsSound(df, pk) ==
    /\ pk # None
    /\ Range(pk) \subseteq ColSet(df)
    /\ ~HasDuplicates(df, pk)
    /\ \A c \in Range(pk) : ~HasNull(df, c)

\* C27: after key assignment, every table of the decomposed schema has a PrimaryKey
\* recorded in the profiles, all of whose columns exist in that table and whose value
\* combination is unique and non-null over the table's rows, whether the table keeps a
\* natural key, is given a synthesized surrogate, or has an existing <table>_id column
\* forced as PrimaryKey.
C27_EveryTableHasSoundPrimaryKey ==
    (last_final.table # "" /\ ~last_final.raised) =>
        \A i \in 1..Len(last_final.tables) :
            KeyIsSound(last_final.tables[i].val,
                       PrimaryKeyOf(profiles, last_final.tables[i].key))

\* C28: in the FK edge set, after detect_all_foreign_keys (the parent-child pass and the
\* self-referencing pass) and after any number of post-hoc inference passes, no
\* (child table, child column) pair is the source of more than one edge.
C28_OneEdgePerChildColumn ==
    \A i, j \in 1..Len(foreign_keys) :
        (/\ foreign_keys[i].fk_table = foreign_keys[j].fk_table
         /\ foreign_keys[i].fk_column = foreign_keys[j].fk_column) => i = j

\* table t of the decomposed schema exists and holds column c
SchemaHolds(t, c) ==
    DictHas(normalized_tables, t) /\ c \in ColSet(DictGet(normalized_tables, t))

\* C29: after normalize_all_tables, every edge of the FK edge set still has both
\* endpoints in the decomposed schema: the child table exists and contains the child
\* column, and the parent table exists and contains the parent column.
C29_EdgesKeepTheirEndpoints ==
    pc = "normalized" =>
        \A i \in 1..Len(foreign_keys) :
            /\ SchemaHolds(foreign_keys[i].fk_table, foreign_keys[i].fk_column)
            /\ SchemaHolds(foreign_keys[i].pk_table, foreign_keys[i].pk_column)

\* C30: every table created while decomposing one input table gets a name distinct from
\* every other table of the decomposed schema: a normalize_table call returns no table
\* under the name of another input table or of a table an earlier call put into the
\* mapping, so the update of the mapping in normalize_all_tables overwrites nothing.
C30_DerivedNamesAreFresh ==
    [][(last_final' # last_final /\ ~last_final'.raised) =>
          \A i \in 1..Len(last_final'.tables) :
              LET t == last_final'.tables[i].key
              IN  /\ ~DictHas(all_normalized, t)
                  /\ t # last_final'.table => t \notin DOMAIN metadata]_vars

====
